---- MODULE Spec2Model ----
(***************************************************************************)
(* Model of the broker-report extractors of shipping_broker_reports:       *)
(*   Affinity/extract_affinity_tables.py, Gibsons/extract_gibson_tables.py,*)
(*   Poten/.../extract_poten.py, Fearnleys/extract_fearnleys.py.           *)
(*                                                                         *)
(* Text is modelled character by character: a Python str is a sequence of  *)
(* one-character strings, so <<"U","S","G">> is "USG".  The characters     *)
(* "NBSP", "ENDASH" and "EMDASH" stand for U+00A0, U+2013 and U+2014.      *)
(* Python indices are kept 0-based as in the source; cells[i] of the       *)
(* source is cells[i + 1] here.                                            *)
(***************************************************************************)
EXTENDS Integers, Sequences, FiniteSets, TLC

VARIABLES
    broker,     \* which extractor processes the document
    doc,        \* the description the document body was rendered from
    body,       \* the message body handed to the extractor (a str)
    pc,         \* position in the extractor's control flow
    found,      \* FALSE when the section locator returned None (not found)
    cells,      \* Affinity: cells; Gibson: tail; Poten: tokens
    lines,      \* Gibson: lines[header_idx + 1:]; Poten: data_lines
    cur,        \* the loop cursor (i, j or the line index), 0-based
    failures,   \* Affinity: failures; Gibson fallback: miss_streak
    started,    \* Gibson fallback / Poten first pass: started
    rows,       \* the list of row dicts built so far
    origin,     \* history: for each row, the parse strategy that appended it
    tried,      \* history: the parse strategies that have been run
    abandoned,  \* history: candidates abandoned in a row since the last emitted row
    expr,       \* date resolution: the ETA expression (a str)
    ref,        \* date resolution: the reference timestamp, or None
    nowYear,    \* date resolution: datetime.now().year
    parsedMonth,  \* year inference: the month handed to infer_year
    inferredYear, \* year inference: the year infer_year returned
    res,        \* date resolution: the resolver's result
    twin,       \* tokenization: a second input with the same values
    twinCells,  \* tokenization: the tokens of the second input
    normalized, \* normalize_text: the returned str
    batch,      \* main: the messages of the Emails folder, in order
    sink,       \* main: the rows written to the workbook
    logged,     \* main: the messages a [WARN] line was printed for
    mailbox,    \* download: broker_folder.Items, in the order of the loop
    index,      \* download: the entry ids in the table downloaded_emails
    saved,      \* download: the entry ids whose .msg file is on disk
    attached,   \* download: the entry ids whose attachments are on disk
    recorded,   \* history: for each item, the calls of mark_downloaded for it
    runNo         \* download: which run of the script this is

extVars == <<broker, doc, body, pc, found, cells, lines, cur, failures, started,
             rows, origin, tried, abandoned>>
dateVars == <<expr, ref, nowYear, parsedMonth, inferredYear, res>>
textVars == <<twin, twinCells, normalized>>
batchVars == <<batch, sink, logged>>
downloadVars == <<mailbox, index, saved, attached, recorded, runNo>>
vars == <<broker, doc, body, pc, found, cells, lines, cur, failures, started,
          rows, origin, tried, abandoned, expr, ref, nowYear,
          parsedMonth, inferredYear, res, twin, twinCells, normalized,
          batch, sink, logged, mailbox, index, saved, attached, recorded, runNo>>

(***************************************************************************)
(* Characters and the str methods the extractors use.                      *)
(***************************************************************************)
Digits == {"0", "1", "2", "3", "4", "5", "6", "7", "8", "9"}
UpperSeq == <<"A","B","C","D","E","F","G","H","I","J","K","L","M",
              "N","O","P","Q","R","S","T","U","V","W","X","Y","Z">>
LowerSeq == <<"a","b","c","d","e","f","g","h","i","j","k","l","m",
              "n","o","p","q","r","s","t","u","v","w","x","y","z">>
UpperSet == {UpperSeq[k] : k \in 1..26}
LowerSet == {LowerSeq[k] : k \in 1..26}
Alpha == UpperSet \cup LowerSet
\* \s of a str pattern and the characters str.strip() removes
Space == {" ", "\t", "\n", "\r", "\f", "NBSP"}
\* \w of a str pattern
WordChars == Alpha \cup Digits \cup {"_"}

LowerChar(c) == IF c \in UpperSet THEN LowerSeq[CHOOSE k \in 1..26 : UpperSeq[k] = c] ELSE c
UpperChar(c) == IF c \in LowerSet THEN UpperSeq[CHOOSE k \in 1..26 : LowerSeq[k] = c] ELSE c
Lower(s) == [k \in 1..Len(s) |-> LowerChar(s[k])]
Upper(s) == [k \in 1..Len(s) |-> UpperChar(s[k])]

Min(a, b) == IF a < b THEN a ELSE b
Max(a, b) == IF a > b THEN a ELSE b
MinOf(S) == CHOOSE h \in S : \A m \in S : h <= m
MaxOf(S) == CHOOSE h \in S : \A m \in S : h >= m

\* s.strip(): drop the leading and trailing whitespace
Strip(s) ==
    LET cut(nonws) == IF nonws = {} THEN <<>> ELSE SubSeq(s, MinOf(nonws), MaxOf(nonws))
    IN  cut({k \in 1..Len(s) : s[k] \notin Space})

\* s.rstrip()
RStrip(s) ==
    LET cut(nonws) == IF nonws = {} THEN <<>> ELSE SubSeq(s, 1, MaxOf(nonws))
    IN  cut({k \in 1..Len(s) : s[k] \notin Space})

\* the concatenation of the sequences ss[lo..hi]
RECURSIVE FlattenRange(_, _, _)
FlattenRange(ss, lo, hi) ==
    IF lo > hi THEN <<>>
    ELSE IF lo = hi THEN ss[lo]
    ELSE LET mid == (lo + hi) \div 2
         IN  FlattenRange(ss, lo, mid) \o FlattenRange(ss, mid + 1, hi)
Flatten(ss) == FlattenRange(ss, 1, Len(ss))

\* s.split("\n"), computed on s[lo..hi] by halving
RECURSIVE SplitRange(_, _, _)
SplitRange(s, lo, hi) ==
    IF lo > hi THEN << <<>> >>
    ELSE IF lo = hi THEN (IF s[lo] = "\n" THEN << <<>>, <<>> >> ELSE << <<s[lo]>> >>)
    ELSE LET glue(l, r) == SubSeq(l, 1, Len(l) - 1) \o << l[Len(l)] \o r[1] >> \o Tail(r)
         IN  glue(SplitRange(s, lo, (lo + hi) \div 2),
                  SplitRange(s, (lo + hi) \div 2 + 1, hi))
SplitLines(s) == SplitRange(s, 1, Len(s))

\* sep.join(parts)
Join(parts, sep) ==
    Flatten([k \in 1..(2 * Len(parts) - 1) |->
                IF k % 2 = 1 THEN parts[(k + 1) \div 2] ELSE sep])

\* [ln.strip() for ln in ls if ln.strip() != ""]
StripNonEmpty(ls) ==
    LET keep(x) == IF x # <<>> THEN <<x>> ELSE <<>>
    IN  Flatten([k \in 1..Len(ls) |-> keep(Strip(ls[k]))])

\* the number of consecutive characters of class cls starting at s[p] (1-based)
RECURSIVE Run(_, _, _)
Run(s, p, cls) == IF p >= 1 /\ p <= Len(s) /\ s[p] \in cls THEN 1 + Run(s, p + 1, cls) ELSE 0

AllIn(s, cls) == \A k \in 1..Len(s) : s[k] \in cls

\* s.replace(old, new) for a one-character old
ReplaceChar(s, old, new) == [k \in 1..Len(s) |-> IF s[k] = old THEN new ELSE s[k]]

\* s.replace("\r\n", "\n")
ReplaceCRLF(s) ==
    Flatten([k \in 1..Len(s) |->
                IF s[k] = "\r" /\ k < Len(s) /\ s[k + 1] = "\n" THEN <<>> ELSE <<s[k]>>])

(***************************************************************************)
(* Regular-expression pieces shared by the extractors.                     *)
(***************************************************************************)
\* does the lower-case literal lit occur in s at s[k..], ignoring case
LitAtCI(s, k, lit) ==
    /\ k >= 1
    /\ k + Len(lit) - 1 <= Len(s)
    /\ \A j \in 1..Len(lit) : LowerChar(s[k + j - 1]) = lit[j]

IsWordAt(s, k) == k >= 1 /\ k <= Len(s) /\ s[k] \in WordChars
\* \b between s[k - 1] and s[k]
Boundary(s, k) == IsWordAt(s, k - 1) # IsWordAt(s, k)

\* the literals of words separated by \s+, matched at s[k..]: the index just
\* after the match, or 0
RECURSIVE MatchWordsAt(_, _, _)
MatchWordsAt(s, k, words) ==
    LET next(e, w) == IF w = 0 THEN 0 ELSE MatchWordsAt(s, e + w, Tail(words))
        rest(e) == IF Len(words) = 1 THEN e ELSE next(e, Run(s, e, Space))
    IN  IF ~LitAtCI(s, k, words[1]) THEN 0 ELSE rest(k + Len(words[1]))

\* re.search of such a pattern: [at |-> start, end |-> index after the match],
\* at = 0 when there is no match
SearchWords(s, words, bounded) ==
    LET ok(k, e) == e # 0 /\ (bounded => (Boundary(s, k) /\ Boundary(s, e)))
        match(k) == [at |-> k, end |-> MatchWordsAt(s, k, words)]
        first(hits) == IF hits = {} THEN [at |-> 0, end |-> 0] ELSE match(MinOf(hits))
    IN  first({k \in 1..Len(s) : ok(k, MatchWordsAt(s, k, words))})

\* the number of whitespace characters just before s[p]
RECURSIVE WsBefore(_, _)
WsBefore(s, p) == IF p > 1 /\ s[p - 1] \in Space THEN 1 + WsBefore(s, p - 1) ELSE 0

\* re.search(r"(?im)^\s*W1\s+W2...\s*$", t): the words alone on a line.  \s also
\* matches "\n": the match may start on blank lines above the words, and its
\* greedy \s*$ ends at the end of the text or just before the last newline of
\* the whitespace that follows the words.  at = 0 when there is no match.
AnchorSearch(t, words) ==
    LET lineStart(p, b) == p - b = 1 \/ \E k \in (p - b)..(p - 1) : t[k] = "\n"
        lineEnd(e, w) == e + w = Len(t) + 1 \/ \E k \in e..(e + w - 1) : t[k] = "\n"
        tail(e) == e # 0 /\ lineEnd(e, Run(t, e, Space))
        ok(p) == lineStart(p, WsBefore(t, p)) /\ tail(MatchWordsAt(t, p, words))
        endOf(e, w) == IF e + w = Len(t) + 1 THEN Len(t) + 1
                       ELSE MaxOf({k \in e..(e + w - 1) : t[k] = "\n"})
        end(e) == endOf(e, Run(t, e, Space))
        match(p) == [at |-> p, end |-> end(MatchWordsAt(t, p, words))]
        first(hits) == IF hits = {} THEN [at |-> 0, end |-> 0] ELSE match(MinOf(hits))
    IN  first({p \in 1..Len(t) : ok(p)})

\* s split at the indices in seps (each a one-character separator), on s[lo..hi]
RECURSIVE SplitAt(_, _, _, _)
SplitAt(s, seps, lo, hi) ==
    IF lo > hi THEN << <<>> >>
    ELSE IF lo = hi THEN (IF lo \in seps THEN << <<>>, <<>> >> ELSE << <<s[lo]>> >>)
    ELSE LET glue(l, r) == SubSeq(l, 1, Len(l) - 1) \o << l[Len(l)] \o r[1] >> \o Tail(r)
         IN  glue(SplitAt(s, seps, lo, (lo + hi) \div 2),
                  SplitAt(s, seps, (lo + hi) \div 2 + 1, hi))

\* int(text) of a run of digits
DigitVal(c) == CHOOSE v \in 0..9 : <<"0","1","2","3","4","5","6","7","8","9">>[v + 1] = c
RECURSIVE ToInt(_)
ToInt(ds) == IF ds = <<>> THEN 0 ELSE 10 * ToInt(SubSeq(ds, 1, Len(ds) - 1)) + DigitVal(ds[Len(ds)])

\* calendar.monthrange(year, month)[1]
IsLeap(y) == (y % 4 = 0 /\ y % 100 # 0) \/ y % 400 = 0
DaysInMonth(y, m) ==
    IF m = 2 THEN (IF IsLeap(y) THEN 29 ELSE 28)
    ELSE IF m \in {4, 6, 9, 11} THEN 30 ELSE 31
\* datetime(y, m, d) does not raise ValueError
ValidDate(y, m, d) ==
    /\ y >= 1 /\ y <= 9999
    /\ m >= 1 /\ m <= 12
    /\ d >= 1 /\ d <= DaysInMonth(y, m)

(***************************************************************************)
(* Affinity: extract_affinity_tables.py                                    *)
(***************************************************************************)
normalize_text_affinity(s) ==
    ReplaceChar(ReplaceChar(ReplaceCRLF(s), "\r", "\n"), "NBSP", " ")

NotFound == [found |-> FALSE, cells |-> <<>>]
Found(cs) == [found |-> TRUE, cells |-> cs]

AffinityUSG == << <<"u","s","g">> >>
AffinityNotes == << <<"n","o","t","e","s">> >>

extract_usg_cells_anywhere(b) ==
    LET cellsOf(t, usg_m, notes_m) ==
            IF usg_m.at = 0 \/ notes_m.at = 0 THEN NotFound
            ELSE Found(StripNonEmpty(SplitLines(SubSeq(t, notes_m.end, Len(t)))))
        in(t) == cellsOf(t, AnchorSearch(t, AffinityUSG), AnchorSearch(t, AffinityNotes))
    IN  in(normalize_text_affinity(b))

\* None is NotFound; a list (possibly empty) is Found(list)
extract_usg_cells(b) ==
    LET cellsOf(data) == Found(StripNonEmpty(SplitLines(data)))
        notes(after, notes_m) ==
            IF notes_m.at = 0 THEN NotFound
            ELSE cellsOf(SubSeq(after, notes_m.end, Len(after)))
        afterUsg(after) == notes(after, AnchorSearch(after, AffinityNotes))
        usg(t, usg_m) ==
            IF usg_m.at = 0 THEN NotFound
            ELSE afterUsg(SubSeq(t, usg_m.end, Len(t)))
        in(t) == usg(t, AnchorSearch(t, AffinityUSG))
    IN  in(normalize_text_affinity(b))

\* ETA_RE = ^\d{1,2}(?:-\d{1,2})?\s+[A-Za-z]{3}$
MonthTail(s, p) ==
    LET w == Run(s, p, Space)
    IN  /\ w >= 1
        /\ Len(s) = p + w + 2
        /\ \A k \in (p + w)..(p + w + 2) : s[k] \in Alpha
ETA_RE(s) ==
    LET n1 == Run(s, 1, Digits)
        p == Min(n1, 2) + 1
    IN  /\ n1 >= 1
        /\ IF p <= Len(s) /\ s[p] = "-"
           THEN LET n2 == Run(s, p + 1, Digits)
                IN  n2 >= 1 /\ MonthTail(s, p + 1 + Min(n2, 2))
           ELSE MonthTail(s, p)

\* BUILT_RE = ^(?:\*|\d{4})$
BUILT_RE(s) == s = <<"*">> \/ (Len(s) = 4 /\ AllIn(s, Digits))

\* \d{1,3}(?:,\d{3})+ from s[p] to the end of s
RECURSIVE Groups3(_, _)
Groups3(s, p) ==
    \/ p = Len(s) + 1
    \/ /\ p + 3 <= Len(s)
       /\ s[p] = ","
       /\ \A k \in (p + 1)..(p + 3) : s[k] \in Digits
       /\ Groups3(s, p + 4)
Grouped(s, atLeastOne) ==
    \E n \in 1..3 :
        /\ n <= Len(s)
        /\ \A k \in 1..n : s[k] \in Digits
        /\ IF atLeastOne THEN n < Len(s) ELSE TRUE
        /\ Groups3(s, n + 1)
\* CBM_RE = ^(?:\*|\d{1,3}(?:,\d{3})+|\d+)$
CBM_RE(s) ==
    \/ s = <<"*">>
    \/ Grouped(s, TRUE)
    \/ (Len(s) >= 1 /\ AllIn(s, Digits))

AffinityFailLimit == 80
AffinityPositionCap == 12

\* the inner loop with the guard of line 193 written as len(pos_parts) > 13
RECURSIVE ScanPositionLoose(_, _, _)
ScanPositionLoose(cs, j, parts) ==
    IF j >= Len(cs) THEN [hit |-> FALSE, eta |-> <<>>, j |-> j, parts |-> parts]
    ELSE LET token == Strip(cs[j + 1])
         IN  IF ETA_RE(token)
             THEN [hit |-> TRUE, eta |-> token, j |-> j + 1, parts |-> parts]
             ELSE IF Len(parts) + 1 > AffinityPositionCap + 1
                  THEN [hit |-> FALSE, eta |-> <<>>, j |-> j + 1,
                        parts |-> Append(parts, token)]
                  ELSE ScanPositionLoose(cs, j + 1, Append(parts, token))

\* the inner loop with the ETA cell appended to pos_parts as well
RECURSIVE ScanPositionKeepsEta(_, _, _)
ScanPositionKeepsEta(cs, j, parts) ==
    IF j >= Len(cs) THEN [hit |-> FALSE, eta |-> <<>>, j |-> j, parts |-> parts]
    ELSE LET token == Strip(cs[j + 1])
         IN  IF ETA_RE(token)
             THEN [hit |-> TRUE, eta |-> token, j |-> j + 1, parts |-> Append(parts, token)]
             ELSE IF Len(parts) + 1 > AffinityPositionCap
                  THEN [hit |-> FALSE, eta |-> <<>>, j |-> j + 1,
                        parts |-> Append(parts, token)]
                  ELSE ScanPositionKeepsEta(cs, j + 1, Append(parts, token))

\* the inner loop of parse_usg_rows_from_cells, from j with pos_parts = parts:
\* hit is FALSE when the loop ended with eta still None
RECURSIVE ScanPosition(_, _, _)
ScanPosition(cs, j, parts) ==
    IF j >= Len(cs) THEN [hit |-> FALSE, eta |-> <<>>, j |-> j, parts |-> parts]
    ELSE LET token == Strip(cs[j + 1])
         IN  IF ETA_RE(token)
             THEN [hit |-> TRUE, eta |-> token, j |-> j + 1, parts |-> parts]
             ELSE IF Len(parts) + 1 > AffinityPositionCap
                  THEN [hit |-> FALSE, eta |-> <<>>, j |-> j + 1,
                        parts |-> Append(parts, token)]
                  ELSE ScanPosition(cs, j + 1, Append(parts, token))

sSlash == <<" ", "/", " ">>
NonEmptyParts(parts) == SelectSeq(parts, LAMBDA p : p # <<>>)

\* the row dict with Notes read one cell early (the ETA cell)
AffinityRowNotesEarly(cs, i) ==
    LET sc == ScanPosition(cs, i + 4, <<>>)
    IN  [Vessel |-> Strip(cs[i + 1]),
         Built |-> Strip(cs[i + 2]),
         CBM |-> Strip(cs[i + 3]),
         Control |-> Strip(cs[i + 4]),
         Position |-> Join(NonEmptyParts(sc.parts), sSlash),
         ETA |-> sc.eta,
         Notes |-> Strip(cs[sc.j])]

\* the row dict appended at lines 205-213 for the candidate at i
AffinityRow(cs, i) ==
    LET row(sc, parts) ==
            [Vessel |-> Strip(cs[i + 1]),
             Built |-> Strip(cs[i + 2]),
             CBM |-> Strip(cs[i + 3]),
             Control |-> Strip(cs[i + 4]),
             Position |-> Join(parts, sSlash),
             ETA |-> sc.eta,
             Notes |-> IF sc.j < Len(cs) THEN Strip(cs[sc.j + 1]) ELSE <<>>]
    IN  CHOOSE r \in {row(sc, NonEmptyParts(sc.parts)) :
                         sc \in {ScanPosition(cs, i + 4, <<>>)}} : TRUE

RowStartValid(cs, i) == BUILT_RE(Strip(cs[i + 2])) /\ CBM_RE(Strip(cs[i + 3]))

(***************************************************************************)
(* Gibson: extract_gibson_tables.py                                        *)
(***************************************************************************)
normalize_text_gibson(s) ==
    ReplaceChar(ReplaceChar(ReplaceCRLF(s), "\r", "\n"), "NBSP", " ")

GibsonWindow == 12000
GibsonMissLimit == 6

GibsonCOLS == <<
    <<"V","E","S","S","E","L">>, <<"B","L","T">>, <<"C","B","M">>, <<"O","W","N","E","R">>,
    <<"S","C","H","E","D","U","L","E","/","I","T","I","N","E","R","A","R","Y">>,
    <<"E","T","A"," ","U","S","G">>,
    <<"E","T","A"," ","M","A","R","C","U","S"," ","H","O","O","K">>,
    <<"E","T","A"," ","W","A","F">>, <<"C","O","M","M","E","N","T","S">> >>

NoDate == [ok |-> FALSE, d |-> 0, mo |-> 0, y |-> 0]

\* re.search(r"(\d{1,2})/(\d{1,2})/(\d{4})", ln) matched at ln[k..]:
\* [ok, d, mo, y]
DateAt(ln, k) ==
    LET len(p, run) == IF run >= 2 /\ p + 2 <= Len(ln) /\ ln[p + 2] = "/" THEN 2
                       ELSE IF run >= 1 /\ p + 1 <= Len(ln) /\ ln[p + 1] = "/" THEN 1
                       ELSE 0
        num(p) == len(p, Run(ln, p, Digits))
        year(n1, k2, n2, k3) ==
            IF Run(ln, k3, Digits) < 4 THEN NoDate
            ELSE [ok |-> TRUE, d |-> ToInt(SubSeq(ln, k, k + n1 - 1)),
                  mo |-> ToInt(SubSeq(ln, k2, k2 + n2 - 1)),
                  y |-> ToInt(SubSeq(ln, k3, k3 + 3))]
        month(n1, k2, n2) == IF n2 = 0 THEN NoDate ELSE year(n1, k2, n2, k2 + n2 + 1)
        second(n1, k2) == month(n1, k2, num(k2))
        day(n1) == IF n1 = 0 THEN NoDate ELSE second(n1, k + n1 + 1)
    IN  day(num(k))

\* lines 193-201 for one line: the first match of the date pattern, if it is
\* a calendar date
LineDate(ln) ==
    LET valid(m) == [m EXCEPT !.ok = ValidDate(m.y, m.mo, m.d)]
        first(hits) == IF hits = {} THEN NoDate ELSE valid(DateAt(ln, MinOf(hits)))
    IN  first({k \in 1..Len(ln) : DateAt(ln, k).ok})

\* lines 216-227: the number of leading column labels of tail to skip
GibsonHeaderSkip(tail) ==
    LET matches(k) == k <= Len(tail) /\ Upper(tail[k]) = Upper(GibsonCOLS[k])
        skip(i) == IF i = 0 /\ Len(tail) >= 8
                      /\ \A k \in 1..8 : Upper(tail[k]) = Upper(GibsonCOLS[k + 1])
                   THEN 8 ELSE i
    IN  skip(MaxOf({k \in 0..Len(GibsonCOLS) : \A m \in 1..k : matches(m)}))

GibsonTitleWords ==
    << <<"w","e","s","t">>, <<"p","o","s","i","t","i","o","n">>, <<"l","i","s","t">> >>

\* lines 178-227: [found, report_date, lines (lines[header_idx + 1:]), tail, i]
GibsonLocated(b) ==
    LET none == [found |-> FALSE, report_date |-> NoDate,
                 lines |-> <<>>, tail |-> <<>>, i |-> 0]
        with(rd, rest, tail) ==
            [found |-> TRUE, report_date |-> rd, lines |-> rest,
             tail |-> tail, i |-> GibsonHeaderSkip(tail)]
        from(rd, rest) == with(rd, rest, StripNonEmpty(rest))
        table(ls, h) == from(LineDate(ls[h]), SubSeq(ls, h + 1, Len(ls)))
        dated(ls, hits) == IF hits = {} THEN none ELSE table(ls, MinOf(hits))
        inLines(ls) == dated(ls, {k \in 1..Len(ls) : LineDate(ls[k]).ok})
        inSplit(split) == inLines([k \in 1..Len(split) |-> Strip(split[k])])
        inWindow(t, m) ==
            IF m.at = 0 THEN none
            ELSE inSplit(SplitLines(SubSeq(t, m.end, Min(Len(t), m.end + GibsonWindow - 1))))
        in(t) == inWindow(t, SearchWords(t, GibsonTitleWords, FALSE))
    IN  in(normalize_text_gibson(b))

\* line 236: re.search(r"(?i)\b(BLPG\d|Forward Assessment LPG|Route|Period|Year)\b", vessel)
GibsonNextSection(v) ==
    \/ \E k \in 1..Len(v) :
         /\ Boundary(v, k) /\ LitAtCI(v, k, <<"b","l","p","g">>)
         /\ k + 4 <= Len(v) /\ v[k + 4] \in Digits /\ Boundary(v, k + 5)
    \/ SearchWords(v, << <<"f","o","r","w","a","r","d"," ","a","s","s","e","s","s","m","e","n","t",
                          " ","l","p","g">> >>, TRUE).at # 0
    \/ SearchWords(v, << <<"r","o","u","t","e">> >>, TRUE).at # 0
    \/ SearchWords(v, << <<"p","e","r","i","o","d">> >>, TRUE).at # 0
    \/ SearchWords(v, << <<"y","e","a","r">> >>, TRUE).at # 0

\* re.fullmatch(r"\d{4}|\*", blt)
GibsonBltOk(blt) == blt = <<"*">> \/ (Len(blt) = 4 /\ AllIn(blt, Digits))
\* re.fullmatch(r"\d{1,3}(?:,\d{3})*|\d+|\*", cbm)
GibsonCbmOk(cbm) ==
    \/ cbm = <<"*">>
    \/ Grouped(cbm, FALSE)
    \/ (Len(cbm) >= 1 /\ AllIn(cbm, Digits))

\* s.upper().replace("?", "").strip()
Remove(s, c) == SelectSeq(s, LAMBDA x : x # c)
GibsonEta(s) == Strip(Remove(Upper(s), "?"))

\* the row dict of lines 244-256 for the chunk tail[j : j + 9]
GibsonVerticalRow(tail, j) ==
    [Vessel |-> Strip(tail[j + 1]), BLT |-> Strip(tail[j + 2]), CBM |-> Strip(tail[j + 3]),
     OWNER |-> Strip(tail[j + 4]), SCHEDULE |-> Strip(tail[j + 5]),
     ETA_USG |-> GibsonEta(tail[j + 6]), ETA_MH |-> GibsonEta(tail[j + 7]),
     ETA_WAF |-> GibsonEta(tail[j + 8]), COMMENTS |-> Strip(tail[j + 9])]

\* lines 236-242: the chunk at j passes the three checks
GibsonChunkOk(tail, j) ==
    /\ ~GibsonNextSection(tail[j + 1])
    /\ GibsonBltOk(tail[j + 2])
    /\ GibsonCbmOk(tail[j + 3])

\* the index after the whitespace that starts at s[p]
SkipWs(s, p) == p + Run(s, p, Space)
\* the number of consecutive non-whitespace characters starting at s[p]
RECURSIVE WordLen(_, _)
WordLen(s, p) == IF p <= Len(s) /\ s[p] \notin Space THEN 1 + WordLen(s, p + 1) ELSE 0
WordAt(s, p) == SubSeq(s, p, p + WordLen(s, p) - 1)
\* \d{1,2} at s[p] followed by something that is not a digit: its length, or 0
Digits12(s, p) == LET n == Run(s, p, Digits) IN IF n \in 1..2 THEN n ELSE 0
Letters3(s, p) == p + 2 <= Len(s) /\ \A k \in p..(p + 2) : s[k] \in Alpha

\* \??\s*\d{1,2}\s*-\s*\d{1,2}\s*[A-Za-z]{3} at s[p..]: the index after it, or 0
MatchDayRange(s, p) ==
    LET month(q4) == IF Letters3(s, q4) THEN q4 + 3 ELSE 0
        d2(q3, n2) == IF n2 = 0 THEN 0 ELSE month(SkipWs(s, q3 + n2))
        afterDash(q3) == d2(q3, Digits12(s, q3))
        dash(q2) == IF q2 <= Len(s) /\ s[q2] = "-" THEN afterDash(SkipWs(s, q2 + 1)) ELSE 0
        d1(q1, n1) == IF n1 = 0 THEN 0 ELSE dash(SkipWs(s, q1 + n1))
        start(q1) == d1(q1, Digits12(s, q1))
    IN  start(SkipWs(s, IF p <= Len(s) /\ s[p] = "?" THEN p + 1 ELSE p))

\* \??\s*\d{1,2}\s*[A-Za-z]{3}\s*-\s*\d{1,2}\s*[A-Za-z]{3} at s[p..]
MatchMonthRange(s, p) ==
    LET month2(q5) == IF Letters3(s, q5) THEN q5 + 3 ELSE 0
        d2(q4, n2) == IF n2 = 0 THEN 0 ELSE month2(SkipWs(s, q4 + n2))
        afterDash(q4) == d2(q4, Digits12(s, q4))
        dash(q3) == IF q3 <= Len(s) /\ s[q3] = "-" THEN afterDash(SkipWs(s, q3 + 1)) ELSE 0
        month1(q2) == IF Letters3(s, q2) THEN dash(SkipWs(s, q2 + 3)) ELSE 0
        d1(q1, n1) == IF n1 = 0 THEN 0 ELSE month1(SkipWs(s, q1 + n1))
        start(q1) == d1(q1, Digits12(s, q1))
    IN  start(SkipWs(s, IF p <= Len(s) /\ s[p] = "?" THEN p + 1 ELSE p))

SpaceAt(s, p) == p >= 1 /\ p <= Len(s) /\ s[p] \in Space
\* a pattern ending at e - 1 that \s+ must follow
Ended(s, e) == IF e # 0 /\ SpaceAt(s, e) THEN e ELSE 0
DashAt(s, p) == IF p <= Len(s) /\ s[p] = "-" THEN p + 1 ELSE 0
FirstNonZero(a, b) == IF a # 0 THEN a ELSE b

\* ETA_USG_PAT \s+ ETA_MH_PAT \s+ ETA_WAF_PAT \s+ from s[p]: the ends of the three
\* groups, e3 = 0 when they do not match
GibsonEtaChain(s, p) ==
    LET no == [e1 |-> 0, p2 |-> 0, e2 |-> 0, p3 |-> 0, e3 |-> 0]
        third(e1, p2, e2, p3) ==
            [e1 |-> e1, p2 |-> p2, e2 |-> e2, p3 |-> p3,
             e3 |-> FirstNonZero(Ended(s, MatchMonthRange(s, p3)), Ended(s, DashAt(s, p3)))]
        afterSecond(e1, p2, e2) == IF e2 = 0 THEN no ELSE third(e1, p2, e2, SkipWs(s, e2))
        second(e1, p2) ==
            afterSecond(e1, p2, FirstNonZero(Ended(s, MatchDayRange(s, p2)),
                                             Ended(s, DashAt(s, p2))))
        afterFirst(e1) == IF e1 = 0 THEN no ELSE second(e1, SkipWs(s, e1))
    IN  afterFirst(Ended(s, MatchDayRange(s, p)))

WordStarts(s) == {k \in 1..Len(s) : s[k] \notin Space /\ (k = 1 \/ s[k - 1] \in Space)}
NextWord(s, p) == SkipWs(s, p + WordLen(s, p))

\* the lazy groups of ROW_RE end at the first place the rest matches: blt is
\* the first word (not the line's first) that, with the word after it as cbm,
\* an owner word, at least one schedule word and the three ETA groups, lets
\* the line match; the schedule ends before the first such ETA groups
GibsonRowStarts(s, k) ==
    LET ends(ks) == {q \in WordStarts(s) : q > ks /\ GibsonEtaChain(s, q).e3 # 0}
        sched(ks) == IF ks <= Len(s) THEN ends(ks) ELSE {}
        owner(ko) == IF ko <= Len(s) THEN sched(NextWord(s, ko)) ELSE {}
        cbm(kc) == IF kc <= Len(s) /\ GibsonCbmOk(WordAt(s, kc))
                   THEN owner(NextWord(s, kc)) ELSE {}
    IN  IF k > 1 /\ GibsonBltOk(WordAt(s, k)) THEN cbm(NextWord(s, k)) ELSE {}

\* s.replace("  ", " ")
RECURSIVE SpacesBefore(_, _)
SpacesBefore(s, k) == IF k > 1 /\ s[k - 1] = " " THEN 1 + SpacesBefore(s, k - 1) ELSE 0
ReplaceDoubleSpace(s) ==
    Flatten([k \in 1..Len(s) |->
        IF s[k] # " " THEN <<s[k]>>
        ELSE IF SpacesBefore(s, k) % 2 = 0 THEN << " " >> ELSE <<>>])
GibsonEtaLine(s) == Strip(ReplaceDoubleSpace(Remove(Upper(s), "?")))

\* ROW_RE.match(ln): [ok, row], row being the dict of lines 280-290
GibsonNoRow ==
    [Vessel |-> <<>>, BLT |-> <<>>, CBM |-> <<>>, OWNER |-> <<>>, SCHEDULE |-> <<>>,
     ETA_USG |-> <<>>, ETA_MH |-> <<>>, ETA_WAF |-> <<>>, COMMENTS |-> <<>>]
ROW_RE(ln) ==
    LET row(k, kc, ko, ks, q, c) ==
            [ok |-> TRUE,
             row |-> [Vessel |-> Strip(SubSeq(ln, 1, k - 1)),
                      BLT |-> WordAt(ln, k),
                      CBM |-> WordAt(ln, kc),
                      OWNER |-> WordAt(ln, ko),
                      SCHEDULE |-> Strip(SubSeq(ln, ks, q - 1)),
                      ETA_USG |-> GibsonEtaLine(SubSeq(ln, q, c.e1 - 1)),
                      ETA_MH |-> GibsonEtaLine(SubSeq(ln, c.p2, c.e2 - 1)),
                      ETA_WAF |-> GibsonEtaLine(SubSeq(ln, c.p3, c.e3 - 1)),
                      COMMENTS |-> Strip(SubSeq(ln, c.e3, Len(ln)))]]
        eta(k, kc, ko, ks, q) == row(k, kc, ko, ks, q, GibsonEtaChain(ln, q))
        sched(k, kc, ko, ks) == eta(k, kc, ko, ks, MinOf(GibsonRowStarts(ln, k)))
        owner(k, kc, ko) == sched(k, kc, ko, NextWord(ln, ko))
        cbm(k, kc) == owner(k, kc, NextWord(ln, kc))
        blt(k) == cbm(k, NextWord(ln, k))
        first(blts) == IF blts = {} THEN [ok |-> FALSE, row |-> GibsonNoRow]
                       ELSE blt(MinOf(blts))
    IN  first({k \in WordStarts(ln) : GibsonRowStarts(ln, k) # {}})

(***************************************************************************)
(* Poten: extract_poten.py                                                 *)
(***************************************************************************)
normalize_text_poten(s) ==
    ReplaceChar(ReplaceChar(ReplaceChar(ReplaceChar(ReplaceCRLF(s), "\r", "\n"),
                                        "NBSP", " "), "ENDASH", "-"), "EMDASH", "-")

PotenWindow == 15000

\* COLS, lower-cased
PotenCOLS == <<
    <<"v","e","s","s","e","l">>, <<"s","i","z","e","/","b","u","i","l","t">>, <<"e","t","a"," ","u","s","g">>,
    <<"e","t","a"," ","m","a","r","c","u","s"," ","h","o","o","k">>, <<"o","w","n","e","r">>,
    <<"a","d","d","i","t","i","o","n","a","l"," ","c","o","m","m","e","n","t","s">> >>

\* [p.strip() for p in re.split(..., line.strip()) if p.strip()]: at tabs when
\* the line has one, else at runs of two or more whitespace characters
smart_split(line) ==
    LET wide(x, k) == x[k] \in Space /\ (SpaceAt(x, k - 1) \/ SpaceAt(x, k + 1))
        at(x, tabs) ==
            IF tabs # {} THEN SplitAt(x, tabs, 1, Len(x))
            ELSE SplitAt(x, {k \in 1..Len(x) : wide(x, k)}, 1, Len(x))
        split(x) == at(x, {k \in 1..Len(x) : x[k] = "\t"})
    IN  StripNonEmpty(split(Strip(line)))

\* re.match(r"^\s*[A-Z][A-Za-z ]{1,30}\s*:\s*$", s.strip())
is_section_label(s) ==
    LET label(x) ==
            /\ Len(x) >= 3
            /\ x[1] \in UpperSet
            /\ x[Len(x)] = ":"
            /\ \E j \in 2..Min(31, Len(x) - 1) :
                  /\ \A k \in 2..j : x[k] \in Alpha \cup {" "}
                  /\ \A k \in (j + 1)..(Len(x) - 1) : x[k] \in Space
    IN  label(Strip(s))

\* re.match(r"(?i)^regards,?\s*$", s) for a stripped s
PotenRegards(s) ==
    Lower(s) \in {<<"r","e","g","a","r","d","s">>, <<"r","e","g","a","r","d","s",",">>}

\* lines 122-127: the four column labels on one line
PotenHeaderLine(ln) ==
    /\ SearchWords(ln, << <<"v","e","s","s","e","l">> >>, TRUE).at # 0
    /\ SearchWords(ln, << <<"s","i","z","e","/","b","u","i","l","t">> >>, TRUE).at # 0
    /\ SearchWords(ln, << <<"e","t","a">>, <<"u","s","g">> >>, TRUE).at # 0
    /\ SearchWords(ln, << <<"e","t","a">>, <<"m","a","r","c","u","s">>, <<"h","o","o","k">> >>, TRUE).at # 0

\* the r-th smallest element of S
Nth(S, r) == CHOOSE j \in S : Cardinality({x \in S : x <= j}) = r

\* lines 131-144 at line i (1-based): the index of the sixth label when the
\* six non-blank lines from line i on are the column labels, else 0
PotenStackedHeader(ls, i) ==
    LET labels(ne) ==
            IF Cardinality(ne) >= 6
               /\ \A r \in 1..6 : Lower(Strip(ls[Nth(ne, r)])) = PotenCOLS[r]
            THEN Nth(ne, 6) ELSE 0
    IN  IF Lower(Strip(ls[i])) = PotenCOLS[1]
        THEN labels({j \in i..Len(ls) : Strip(ls[j]) # <<>>})
        ELSE 0

\* lines 121-144 at line i: the index of the header's last line, or 0
PotenHeaderAt(ls, i) == IF PotenHeaderLine(ls[i]) THEN i ELSE PotenStackedHeader(ls, i)

PotenNotFound == [found |-> FALSE, data_lines |-> <<>>]

\* lines 101-150: [found, data_lines]
PotenLocated(b) ==
    LET data(ls, h) == [found |-> TRUE, data_lines |-> SubSeq(ls, h + 1, Len(ls))]
        header(ls, hits) ==
            IF hits = {} THEN PotenNotFound ELSE data(ls, PotenHeaderAt(ls, MinOf(hits)))
        inLines(ls) == header(ls, {i \in 1..Len(ls) : PotenHeaderAt(ls, i) # 0})
        inSplit(split) == inLines([k \in 1..Len(split) |-> RStrip(split[k])])
        inWindow(t, m) ==
            IF m.at = 0 THEN PotenNotFound
            ELSE inSplit(SplitLines(SubSeq(t, m.end, Min(Len(t), m.end + PotenWindow - 1))))
        weak(t, m) == IF m.at # 0 THEN inWindow(t, m)
                      ELSE inWindow(t, SearchWords(t, << <<"w","e","s","t",":">> >>, TRUE))
        in(t) == weak(t, AnchorSearch(t, << <<"w","e","s","t",":">> >>))
    IN  in(normalize_text_poten(b))

\* dict(zip(COLS, parts)) for six parts
PotenRow(parts) ==
    [Vessel |-> parts[1], SizeBuilt |-> parts[2], ETA_USG |-> parts[3],
     ETA_MH |-> parts[4], Owner |-> parts[5], Comments |-> parts[6]]

\* lines 167-170: five parts get an empty sixth, more than six are folded
PotenSix(parts) ==
    IF Len(parts) = 5 THEN Append(parts, <<>>)
    ELSE IF Len(parts) > 6
         THEN SubSeq(parts, 1, 5) \o <<Join(SubSeq(parts, 6, Len(parts)), <<" ">>)>>
         ELSE parts

\* lines 179-186: the non-blank lines up to a section label or "Regards"
PotenTokens(data_lines) ==
    LET upTo(stops) ==
            StripNonEmpty(SubSeq(data_lines, 1,
                IF stops = {} THEN Len(data_lines) ELSE MinOf(stops) - 1))
        stop(x) == x # <<>> /\ (is_section_label(x) \/ PotenRegards(x))
    IN  upTo({k \in 1..Len(data_lines) : stop(Strip(data_lines[k]))})

(***************************************************************************)
(* Fearnleys: extract_fearnleys.py                                         *)
(***************************************************************************)
normalize_text_fearnleys(s) ==
    ReplaceChar(ReplaceChar(ReplaceChar(ReplaceChar(ReplaceCRLF(s), "\r", "\n"),
                                        "NBSP", " "), "ENDASH", "-"), "EMDASH", "-")

FearnleysTitleWords == << <<"u","s","g">>, <<"p","o","s","i","t","i","o","n","s">> >>
FearnleysBlankLimit == 3

\* the locator reading the whole text when there is no header
FearnleysLocatedWholeText(b) ==
    LET inSplit(split) ==
            [found |-> TRUE, lines |-> [k \in 1..Len(split) |-> Strip(split[k])]]
        after(t, m) == inSplit(SplitLines(SubSeq(t, IF m.at = 0 THEN 1 ELSE m.end, Len(t))))
        weak(t, m) == IF m.at # 0 THEN after(t, m)
                      ELSE after(t, SearchWords(t, FearnleysTitleWords, TRUE))
        in(t) == weak(t, AnchorSearch(t, FearnleysTitleWords))
    IN  in(normalize_text_fearnleys(b))

\* lines 89-100 of extract_usg_positions_lines: [found, lines], the stripped
\* lines after the header
FearnleysLocated(b) ==
    LET none == [found |-> FALSE, lines |-> <<>>]
        inSplit(split) ==
            [found |-> TRUE, lines |-> [k \in 1..Len(split) |-> Strip(split[k])]]
        after(t, m) == IF m.at = 0 THEN none
                       ELSE inSplit(SplitLines(SubSeq(t, m.end, Len(t))))
        weak(t, m) == IF m.at # 0 THEN after(t, m)
                      ELSE after(t, SearchWords(t, FearnleysTitleWords, TRUE))
        in(t) == weak(t, AnchorSearch(t, FearnleysTitleWords))
    IN  in(normalize_text_fearnleys(b))

Contains(s, c) == \E k \in 1..Len(s) : s[k] = c

\* line 115: re.match(r"^[A-Z][A-Z\s/]{6,}$", ln) and "USG" not in ln.upper()
FearnleysSectionHeader(ln) ==
    /\ Len(ln) >= 7
    /\ ln[1] \in UpperSet
    /\ \A k \in 2..Len(ln) : ln[k] \in UpperSet \cup Space \cup {"/"}
    /\ \A k \in 1..Len(ln) : ~LitAtCI(ln, k, <<"u","s","g">>)

\* line 119
FearnleysDataLine(ln) == Contains(ln, ":") /\ Contains(ln, "/")

\* PAREN_RE over s[p..]: the contents of the (...) groups, and s[p..] without
\* the groups
RECURSIVE ParenParts(_, _)
ParenParts(s, p) ==
    LET plain == [notes |-> <<>>, text |-> SubSeq(s, p, Len(s))]
        cut(i, j, rest) ==
            [notes |-> <<SubSeq(s, i + 1, j - 1)>> \o rest.notes,
             text |-> SubSeq(s, p, i - 1) \o rest.text]
        close(i, closes) ==
            IF closes = {} THEN plain
            ELSE cut(i, MinOf(closes), ParenParts(s, MinOf(closes) + 1))
        open(opens) ==
            IF opens = {} THEN plain
            ELSE close(MinOf(opens), {k \in (MinOf(opens) + 1)..Len(s) : s[k] = ")"})
    IN  open({k \in p..Len(s) : s[k] = "("})

\* re.sub(r"\s{2,}", " ", s)
CollapseSpace(s) ==
    Flatten([k \in 1..Len(s) |->
        IF s[k] \notin Space THEN <<s[k]>>
        ELSE IF SpaceAt(s, k - 1) THEN <<>>
        ELSE IF SpaceAt(s, k + 1) THEN <<" ">>
        ELSE <<s[k]>>])

\* s.rstrip(" -")
RStripHyphen(s) ==
    LET cut(keep) == IF keep = {} THEN <<>> ELSE SubSeq(s, 1, MaxOf(keep))
    IN  cut({k \in 1..Len(s) : s[k] \notin {" ", "-"}})

FearnleysNoRec ==
    [ETA_raw |-> <<>>, Owner |-> <<>>, Vessel |-> <<>>, Notes |-> <<>>, Raw |-> <<>>]

\* parse_line: [ok, rec]; LINE_RE takes the text before the first ":" as eta,
\* the text up to the next "/" as owner and the rest as vessel, none empty
parse_line(ln) ==
    LET rec(line, eta, owner, pp) ==
            [ok |-> TRUE,
             rec |-> [ETA_raw |-> Strip(eta), Owner |-> Strip(owner),
                      Vessel |-> Strip(RStripHyphen(Strip(CollapseSpace(Strip(pp.text))))),
                      Notes |-> Join(StripNonEmpty(pp.notes), <<";", " ">>),
                      Raw |-> line]]
        no == [ok |-> FALSE, rec |-> FearnleysNoRec]
        vessel(line, c, d) ==
            IF d = Len(line) THEN no
            ELSE rec(line, SubSeq(line, 1, c - 1), SubSeq(line, c + 1, d - 1),
                     ParenParts(Strip(SubSeq(line, d + 1, Len(line))), 1))
        owner(line, c, slashes) ==
            IF slashes = {} \/ MinOf(slashes) = c + 1 THEN no
            ELSE vessel(line, c, MinOf(slashes))
        eta(line, colons) ==
            IF colons = {} \/ MinOf(colons) = 1 THEN no
            ELSE owner(line, MinOf(colons),
                       {k \in (MinOf(colons) + 1)..Len(line) : line[k] = "/"})
        in(line) == eta(line, {k \in 1..Len(line) : line[k] = ":"})
    IN  in(Strip(normalize_text_fearnleys(ln)))

\* main, lines 282-299: the records of the lines parse_line accepts
FearnleysRecords(ls) ==
    LET one(r) == IF r.ok THEN <<r.rec>> ELSE <<>>
    IN  Flatten([k \in 1..Len(ls) |-> one(parse_line(ls[k]))])

(***************************************************************************)
(* Date resolution: parse_eta_dates (Fearnleys), parse_eta_range (Poten)   *)
(* and the infer_year of each.  A datetime is [year, month, day, hour].    *)
(***************************************************************************)
\* ref_dt is None
NoRef == [has |-> FALSE, year |-> 0, month |-> 0]
NoDT == [year |-> 0, month |-> 0, day |-> 0, hour |-> 0]
\* the result (None, None, None)
NoDates == [ok |-> FALSE, start |-> NoDT, end |-> NoDT, mid |-> NoDT]

\* datetime(y, m, d)
datetime(y, m, d) == [year |-> y, month |-> m, day |-> d, hour |-> 0]

\* the midpoint cut down to a whole day
MidpointWholeDays(start, end) ==
    LET add(n) == [start EXCEPT !.day = @ + n \div 2]
    IN  add(end.day - start.day)

\* start + (end - start) / 2 for two midnights of one month: the difference
\* is a whole number n of days, half of it n half-days
Midpoint(start, end) ==
    LET add(n) == [start EXCEPT !.day = @ + n \div 2, !.hour = 12 * (n % 2)]
    IN  add(end.day - start.day)

\* MONTH_MAP and MONTH_ABBR: calendar.month_abbr, lower-cased
MonthAbbr == << <<"j","a","n">>, <<"f","e","b">>, <<"m","a","r">>, <<"a","p","r">>, <<"m","a","y">>, <<"j","u","n">>,
    <<"j","u","l">>, <<"a","u","g">>, <<"s","e","p">>, <<"o","c","t">>, <<"n","o","v">>, <<"d","e","c">> >>
\* MONTH_FULL: calendar.month_name, lower-cased
MonthFull == <<
    <<"j","a","n","u","a","r","y">>, <<"f","e","b","r","u","a","r","y">>, <<"m","a","r","c","h">>,
    <<"a","p","r","i","l">>, <<"m","a","y">>, <<"j","u","n","e">>,
    <<"j","u","l","y">>, <<"a","u","g","u","s","t">>, <<"s","e","p","t","e","m","b","e","r">>,
    <<"o","c","t","o","b","e","r">>, <<"n","o","v","e","m","b","e","r">>, <<"d","e","c","e","m","b","e","r">> >>

\* table.get(name): the month number, 0 for None
MonthGet(table, name) ==
    IF \E i \in 1..12 : table[i] = name THEN CHOOSE i \in 1..12 : table[i] = name ELSE 0

\* a variant that builds each date on its own and keeps the one that is valid
DatesOfPerDay(y, m, d1, d2) ==
    [ok |-> ValidDate(y, m, d1) \/ ValidDate(y, m, d2),
     start |-> IF ValidDate(y, m, d1) THEN datetime(y, m, d1) ELSE NoDT,
     end |-> IF ValidDate(y, m, d2) THEN datetime(y, m, d2) ELSE NoDT,
     mid |-> IF ValidDate(y, m, d1) /\ ValidDate(y, m, d2)
             THEN Midpoint(datetime(y, m, d1), datetime(y, m, d2)) ELSE NoDT]

\* (start, end, mid) of lines 212-218 and 247-253, None when datetime raises
DatesOf(y, m, d1, d2) ==
    IF ValidDate(y, m, d1) /\ ValidDate(y, m, d2)
    THEN [ok |-> TRUE, start |-> datetime(y, m, d1), end |-> datetime(y, m, d2),
          mid |-> Midpoint(datetime(y, m, d1), datetime(y, m, d2))]
    ELSE NoDates

\* ^(\d{1,2})\s*-\s*(\d{1,2}) at the start of s: [ok, d1, d2, next], next the
\* index after the second number
DayRangePrefix(s) ==
    LET no == [ok |-> FALSE, d1 |-> 0, d2 |-> 0, next |-> 0]
        second(n1, q, n2) ==
            IF n2 \notin 1..2 THEN no
            ELSE [ok |-> TRUE, d1 |-> ToInt(SubSeq(s, 1, n1)),
                  d2 |-> ToInt(SubSeq(s, q, q + n2 - 1)), next |-> q + n2]
        afterDash(n1, q) == second(n1, q, Run(s, q, Digits))
        dash(n1, p) == IF p <= Len(s) /\ s[p] = "-" THEN afterDash(n1, SkipWs(s, p + 1))
                       ELSE no
        first(n1) == IF n1 \notin 1..2 THEN no ELSE dash(n1, SkipWs(s, n1 + 1))
    IN  first(Run(s, 1, Digits))

\* the year moved on whenever the parsed month is before the reference month
infer_year_months_before(r, m, now) ==
    IF ~r.has THEN now
    ELSE IF m < r.month THEN r.year + 1 ELSE r.year

\* Fearnleys infer_year
infer_year_fearnleys(r, m, now) ==
    IF ~r.has THEN now
    ELSE IF r.month = 12 /\ m = 1 THEN r.year + 1 ELSE r.year

\* Poten infer_year
infer_year_poten(r, m, now) ==
    IF ~r.has THEN now
    ELSE IF r.month = 12 /\ m = 1 THEN r.year + 1 ELSE r.year

RELATIVE_BUCKETS == <<
    [name |-> <<"e","a","r","l","y">>, d1 |-> 1, d2 |-> 10],
    [name |-> <<"m","i","d">>, d1 |-> 11, d2 |-> 20],
    [name |-> <<"l","a","t","e">>, d1 |-> 21, d2 |-> 28],
    [name |-> <<"e","n","d">>, d1 |-> 25, d2 |-> 31] >>

\* the three letters s[p..] that end s
MonthTail3(s, p) == p + 2 = Len(s) /\ AllIn(SubSeq(s, p, Len(s)), Alpha)

\* Fearnleys parse_eta_dates(eta_raw, ref_dt)
parse_eta_dates(eta_raw, r, now) ==
    LET dates(m, d1, d2) == DatesOf(infer_year_fearnleys(r, m, now), m, d1, d2)
        capped(y, m, d1, d2) == DatesOf(y, m, d1, Min(d2, DaysInMonth(y, m)))
        relative(m, b) ==
            IF m = 0 THEN NoDates
            ELSE capped(infer_year_fearnleys(r, m, now), m, b.d1, b.d2)
        inBucket(s, b, p) ==
            IF p > Len(b.name) + 1 /\ MonthTail3(s, p)
            THEN relative(MonthGet(MonthAbbr, Lower(SubSeq(s, p, Len(s)))), b)
            ELSE NoDates
        bucket(s, hits) ==
            IF hits = {} THEN NoDates
            ELSE inBucket(s, RELATIVE_BUCKETS[MinOf(hits)],
                          SkipWs(s, Len(RELATIVE_BUCKETS[MinOf(hits)].name) + 1))
        buckets(s) == bucket(s, {i \in 1..Len(RELATIVE_BUCKETS) :
                                    LitAtCI(s, 1, RELATIVE_BUCKETS[i].name)})
        inMonth(m, d1, d2) == IF m = 0 THEN NoDates ELSE dates(m, d1, d2)
        singleAt(s, n, p) ==
            IF MonthTail3(s, p)
            THEN inMonth(MonthGet(MonthAbbr, Lower(SubSeq(s, p, Len(s)))),
                         ToInt(SubSeq(s, 1, n)), ToInt(SubSeq(s, 1, n)))
            ELSE buckets(s)
        single(s, n) == IF n \in 1..2 THEN singleAt(s, n, SkipWs(s, n + 1)) ELSE buckets(s)
        rangeAt(s, dr, p) ==
            IF MonthTail3(s, p)
            THEN inMonth(MonthGet(MonthAbbr, Lower(SubSeq(s, p, Len(s)))), dr.d1, dr.d2)
            ELSE single(s, Run(s, 1, Digits))
        range(s, dr) == IF dr.ok THEN rangeAt(s, dr, SkipWs(s, dr.next))
                        ELSE single(s, Run(s, 1, Digits))
        in(s) == range(s, DayRangePrefix(s))
    IN  IF eta_raw = <<>> THEN NoDates ELSE in(Strip(normalize_text_fearnleys(eta_raw)))

\* Poten parse_eta_range(eta_str, ref_dt), ETA_RANGE_RE being
\* ^\s*(\d{1,2})\s*-\s*(\d{1,2})\s+([A-Za-z]+)\s*$
parse_eta_range_poten(eta_str, r, now) ==
    LET dates(m, d1, d2) ==
            IF m = 0 THEN NoDates ELSE DatesOf(infer_year_poten(r, m, now), m, d1, d2)
        month(full, abbr) == IF full # 0 THEN full ELSE abbr
        named(name, d1, d2) ==
            dates(month(MonthGet(MonthFull, name), MonthGet(MonthAbbr, name)), d1, d2)
        word(s, dr, p) ==
            IF p > dr.next /\ p <= Len(s) /\ AllIn(SubSeq(s, p, Len(s)), Alpha)
            THEN named(Lower(SubSeq(s, p, Len(s))), dr.d1, dr.d2)
            ELSE NoDates
        range(s, dr) == IF dr.ok THEN word(s, dr, SkipWs(s, dr.next)) ELSE NoDates
        in(s) == range(s, DayRangePrefix(s))
    IN  IF eta_str = <<>> THEN NoDates ELSE in(Strip(normalize_text_poten(eta_str)))

\* list(calendar.month_abbr)[1:]
MonthAbbrCased == << <<"J","a","n">>, <<"F","e","b">>, <<"M","a","r">>, <<"A","p","r">>, <<"M","a","y">>, <<"J","u","n">>,
    <<"J","u","l">>, <<"A","u","g">>, <<"S","e","p">>, <<"O","c","t">>, <<"N","o","v">>, <<"D","e","c">> >>

\* str(n) padded with zeros to w digits
RECURSIVE Padded(_, _)
Padded(n, w) ==
    IF w = 0 THEN <<>>
    ELSE Append(Padded(n \div 10, w - 1), <<"0","1","2","3","4","5","6","7","8","9">>[(n % 10) + 1])

\* to_local_time_str(dt) for a timestamp of the 20th at 09:30 with no
\* time zone: dt.strftime("%Y-%m-%d %H:%M:%S"), "" when dt is None
to_local_time_str(r) ==
    IF ~r.has THEN <<>>
    ELSE Padded(r.year, 4) \o <<"-">> \o Padded(r.month, 2) \o <<"-", "2", "0">>
         \o <<" ","0","9",":","3","0",":","0","0">>

\* datetime.strptime(s, "%Y-%m-%d").year for the text str.strftime gives:
\* [ok, year], ok FALSE when strptime raises
StrpYear(s) ==
    LET no == [ok |-> FALSE, year |-> 0]
        date(y, m, d) == IF ValidDate(y, m, d) THEN [ok |-> TRUE, year |-> y] ELSE no
    IN  IF /\ Len(s) = 10 /\ s[5] = "-" /\ s[8] = "-"
           /\ AllIn(SubSeq(s, 1, 4) \o SubSeq(s, 6, 7) \o SubSeq(s, 9, 10), Digits)
        THEN date(ToInt(SubSeq(s, 1, 4)), ToInt(SubSeq(s, 6, 7)), ToInt(SubSeq(s, 9, 10)))
        ELSE no

\* the result (None, None) of the two-value resolvers
NoRange == [raised |-> FALSE, ok |-> FALSE, start |-> NoDT, end |-> NoDT]

\* (start_dt, end_dt) of Affinity lines 96-102 and Gibson lines 119-124
RangeOf(y, m, d1, d2) ==
    IF ValidDate(y, m, d1) /\ ValidDate(y, m, d2)
    THEN [raised |-> FALSE, ok |-> TRUE, start |-> datetime(y, m, d1),
          end |-> datetime(y, m, d2)]
    ELSE NoRange

\* Affinity parse_eta_range(eta_str, email_sent_str), the pattern being
\* (\d{1,2})-(\d{1,2})\s+([A-Za-z]{3}) matched at the start; raised when
\* list(calendar.month_abbr).index(month_abbr) raises ValueError (line 94)
parse_eta_range_affinity(eta_str, email_sent_str, now) ==
    LET year(sy) == IF email_sent_str # <<>> /\ sy.ok THEN sy.year ELSE now
        y == year(StrpYear(SubSeq(email_sent_str, 1, Min(10, Len(email_sent_str)))))
        month(m, d1, d2) ==
            IF m = 0 THEN [NoRange EXCEPT !.raised = TRUE] ELSE RangeOf(y, m, d1, d2)
        letters(s, d1, d2, p) ==
            IF p + 2 <= Len(s) /\ AllIn(SubSeq(s, p, p + 2), Alpha)
            THEN month(MonthGet(MonthAbbrCased, SubSeq(s, p, p + 2)), d1, d2)
            ELSE NoRange
        space(s, d1, d2, q, w) ==
            IF w = 0 THEN NoRange ELSE letters(s, d1, d2, q + w)
        second(s, n1, n2) ==
            IF n2 \notin 1..2 THEN NoRange
            ELSE space(s, ToInt(SubSeq(s, 1, n1)), ToInt(SubSeq(s, n1 + 2, n1 + 1 + n2)),
                       n1 + 2 + n2, Run(s, n1 + 2 + n2, Space))
        first(s, n1) ==
            IF n1 \in 1..2 /\ n1 + 1 <= Len(s) /\ s[n1 + 1] = "-"
            THEN second(s, n1, Run(s, n1 + 2, Digits))
            ELSE NoRange
        in(s) == first(s, Run(s, 1, Digits))
    IN  IF eta_str = <<>> THEN NoRange ELSE in(Strip(eta_str))

\* s.title() for a word of letters
Title(s) == [k \in 1..Len(s) |-> IF k = 1 THEN UpperChar(s[k]) ELSE LowerChar(s[k])]

\* Gibson parse_eta_usg_range(eta_usg, ref_year), ETA_USG_RE being
\* ^\s*(\d{1,2})\s*-\s*(\d{1,2})\s*([A-Za-z]{3})\s*$
parse_eta_usg_range(eta_usg, ref_year) ==
    LET month(m, d1, d2) == IF m = 0 THEN NoRange ELSE RangeOf(ref_year, m, d1, d2)
        letters(s, dr, p) ==
            IF MonthTail3(s, p)
            THEN month(MonthGet(MonthAbbrCased, Title(SubSeq(s, p, Len(s)))), dr.d1, dr.d2)
            ELSE NoRange
        range(s, dr) == IF dr.ok THEN letters(s, dr, SkipWs(s, dr.next)) ELSE NoRange
        in(s) == range(s, DayRangePrefix(s))
    IN  IF eta_usg = <<>> THEN NoRange ELSE in(Strip(eta_usg))

\* main, Affinity lines 279-282 and Gibson line 336: the midpoint joins a
\* start and an end that are both present
WithMid(r) ==
    IF r.ok THEN [ok |-> TRUE, start |-> r.start, end |-> r.end,
                  mid |-> Midpoint(r.start, r.end)]
    ELSE NoDates

(***************************************************************************)
(* Documents.  A body is rendered from a description (doc), so that what   *)
(* the extractor should find in it is known.                               *)
(***************************************************************************)
MaxRows == 2
MaxJunk == 82
MaxLines == 3

Repeat(x, n) == [k \in 1..n |-> x]
SeqsUpTo(S, n) == UNION {[1..k -> S] : k \in 0..n}

\* Affinity table rows: the spec's example row, a row with placeholders, two
\* position cells and a single-day ETA, rows with 12 and 13 position cells, a
\* row with a corrupted Built cell, a row with a corrupted ETA cell and a row
\* whose Notes cell is empty, so that the row ends at its ETA cell
AffinityTemplates == <<
    [vessel |-> <<"V","e","s","s","e","l"," ","A">>, built |-> <<"2","0","1","6">>,
     cbm |-> <<"8","3",",","0","0","0">>, control |-> <<"A","B","C">>,
     pos |-> << <<"S","i","n","g","a","p","o","r","e">> >>,
     eta |-> <<"1","4","-","2","0"," ","M","a","r">>, notes |-> <<"c","l","e","a","n">>],
    [vessel |-> <<"B">>, built |-> <<"*">>, cbm |-> <<"*">>, control |-> <<"X","Y">>,
     pos |-> << <<"H","o","u","s","t","o","n">>, <<"P","a","n","a","m","a">> >>,
     eta |-> <<"5"," ","A","p","r">>, notes |-> <<"o","k">>],
    [vessel |-> <<"C">>, built |-> <<"2","0","1","9">>, cbm |-> <<"8","4","0","0","0">>,
     control |-> <<"Q">>, pos |-> Repeat(<<"p">>, AffinityPositionCap),
     eta |-> <<"0","1","-","0","2"," ","A","p","r">>, notes |-> <<"n">>],
    [vessel |-> <<"D">>, built |-> <<"2","0","1","9">>, cbm |-> <<"8","4","0","0","0">>,
     control |-> <<"Q">>, pos |-> Repeat(<<"p">>, AffinityPositionCap + 1),
     eta |-> <<"0","1","-","0","2"," ","A","p","r">>, notes |-> <<"n">>],
    [vessel |-> <<"E">>, built |-> <<"2","0","x","6">>, cbm |-> <<"8","3",",","0","0","0">>,
     control |-> <<"A","B","C">>, pos |-> << <<"G","h","e","n","t">> >>,
     eta |-> <<"1","4","-","2","0"," ","M","a","r">>, notes |-> <<"l","a","t","e">>],
    [vessel |-> <<"F">>, built |-> <<"2","0","1","5">>, cbm |-> <<"8","2",",","0","0","0">>,
     control |-> <<"A","B","C">>, pos |-> << <<"G","h","e","n","t">> >>,
     eta |-> <<"1","4","-","2","0"," ","M","a","r","c","h">>, notes |-> <<"x">> ],
    [vessel |-> <<"G">>, built |-> <<"2","0","1","7">>, cbm |-> <<"8","0",",","0","0","0">>,
     control |-> <<"A","B","C">>, pos |-> << <<"T","e","x","a","s">> >>,
     eta |-> <<"0","1","-","0","2"," ","A","p","r">>, notes |-> <<>> ] >>

AffinityRowCells(t) ==
    <<t.vessel, t.built, t.cbm, t.control>> \o t.pos \o <<t.eta>>
        \o (IF t.notes = <<>> THEN <<>> ELSE <<t.notes>>)

\* the first four cells of a row, with nothing after them
HalfRow == << <<"H">>, <<"2","0","1","6">>, <<"8","3",",","0","0","0">>, <<"A","B","C">> >>

\* lines a body may be made of
LineAlphabet == <<
    <<"U","S","G">>, <<" ","u","s","g","\r">>, <<"N","o","t","e","s">>,
    <<"n","o","t","e","s","\t">>, <<>>, <<" ","NBSP">>, <<"x">>,
    <<"U","S","G"," ","N","o","t","e","s">> >>

DocBase == [broker |-> "Affinity", kind |-> "rows", rows |-> <<>>, half |-> FALSE,
            n |-> 0, lines |-> <<>>]

AffinityDocs ==
    {[DocBase EXCEPT !.rows = r] : r \in SeqsUpTo(1..Len(AffinityTemplates), MaxRows)}
    \cup {[DocBase EXCEPT !.kind = "junk", !.half = h, !.n = n] :
            h \in BOOLEAN, n \in {0, 1} \cup ((AffinityFailLimit - 4)..MaxJunk)}
    \cup {[DocBase EXCEPT !.kind = "lines", !.lines = l] :
            l \in SeqsUpTo(1..Len(LineAlphabet), MaxLines)}

\* the cells below the header that the body of doc holds
AffinityDocCells(d) ==
    IF d.kind = "rows"
    THEN Flatten([k \in 1..Len(d.rows) |-> AffinityRowCells(AffinityTemplates[d.rows[k]])])
    ELSE (IF d.half THEN HalfRow ELSE <<>>) \o Repeat(<<"x">>, d.n)
            \o AffinityRowCells(AffinityTemplates[1])

AffinityRender(d) ==
    IF d.kind = "lines"
    THEN Join([k \in 1..Len(d.lines) |-> LineAlphabet[d.lines[k]]], <<"\n">>)
    ELSE Join(<< <<"U","S","G">>, <<"V","e","s","s","e","l">>, <<"N","o","t","e","s">> >>
                \o AffinityDocCells(d), <<"\r", "\n", "\n">>)


\* Gibson table rows: two well-formed rows, a row with a corrupted BLT cell, a
\* row with a corrupted CBM cell and a row whose Vessel cell names a section
GibsonTemplates == <<
    [vessel |-> <<"G","a","s"," ","A">>, blt |-> <<"2","0","1","6">>, cbm |-> <<"8","4",",","0","0","0">>,
     owner |-> <<"O","W","N">>, sched |-> <<"H","o","u","s","t","o","n">>,
     usg |-> <<"1","4","-","1","5"," ","M","a","r">>, mh |-> <<"-">>,
     waf |-> <<"-">>, comments |-> <<"o","p","e","n">>],
    [vessel |-> <<"B">>, blt |-> <<"*">>, cbm |-> <<"*">>,
     owner |-> <<"X","Y">>, sched |-> <<"C","h","i","b","a"," ","P","a","n","a","m","a">>,
     usg |-> <<"?","0","3","-","0","5"," ","A","P","R">>, mh |-> <<"0","6","-","0","7"," ","A","P","R">>,
     waf |-> <<"1","0"," ","A","P","R","-","1","2"," ","A","P","R">>, comments |-> <<"t","b","c">>],
    [vessel |-> <<"C">>, blt |-> <<"2","0","x","6">>, cbm |-> <<"8","4","0","0","0">>,
     owner |-> <<"O","W","N">>, sched |-> <<"H","o","u","s","t","o","n">>,
     usg |-> <<"1","4","-","1","5"," ","M","A","R">>, mh |-> <<"-">>,
     waf |-> <<"-">>, comments |-> <<"l","a","t","e">>],
    [vessel |-> <<"D">>, blt |-> <<"2","0","1","6">>, cbm |-> <<"8","4","k">>,
     owner |-> <<"O","W","N">>, sched |-> <<"H","o","u","s","t","o","n">>,
     usg |-> <<"1","4","-","1","5"," ","M","A","R">>, mh |-> <<"-">>,
     waf |-> <<"-">>, comments |-> <<"l","a","t","e">>],
    [vessel |-> <<"R","o","u","t","e"," ","E">>, blt |-> <<"2","0","1","6">>, cbm |-> <<"8","4",",","0","0","0">>,
     owner |-> <<"O","W","N">>, sched |-> <<"H","o","u","s","t","o","n">>,
     usg |-> <<"1","4","-","1","5"," ","M","A","R">>, mh |-> <<"-">>,
     waf |-> <<"-">>, comments |-> <<"l","a","t","e">>] >>

GibsonRowCells(t) ==
    <<t.vessel, t.blt, t.cbm, t.owner, t.sched, t.usg, t.mh, t.waf, t.comments>>

\* lines below the table header: the first two rows written on one line each,
\* a line that is no row, a blank line
GibsonLineTemplates == <<
    Join(GibsonRowCells(GibsonTemplates[1]), <<" ", " ">>),
    Join(GibsonRowCells(GibsonTemplates[2]), <<" ">>),
    <<"x"," ","y">>,
    <<>> >>

GibsonTitle == <<"G","i","b","s","o","n"," ","W","E","S","T"," "," ","P","O","S","I","T","I","O","N"," ","L","I","S","T">>
GibsonDateLine == <<"D","a","t","e",":"," ","2","6","/","2","/","2","0","2","6">>
\* a cell that belongs to no row
Spurious == <<"z","z">>

GibsonLineAlphabet == <<
    <<"W","E","S","T"," ","P","O","S","I","T","I","O","N"," ","L","I","S","T">>, <<"w","e","s","t"," ","p","o","s","i","t","i","o","n","\t","l","i","s","t"," ","1","/","3","/","2","0","2","6">>,
    <<"2","6","/","2","/","2","0","2","6">>, <<"3","1","/","2","/","2","0","2","6">>, <<>>, <<" ","\t">>,
    <<"x">> >>

\* kind "table": the title, the date line, the column labels (n = 1: all nine,
\* n = 2: without Vessel, n = 0: none), a spurious cell when half, the rows one
\* cell per line, then the lines
GibsonDocs ==
    {[DocBase EXCEPT !.broker = "Gibson", !.kind = "table", !.rows = r, !.half = h, !.n = n] :
        r \in SeqsUpTo(1..Len(GibsonTemplates), MaxRows), h \in BOOLEAN, n \in 0..2}
    \cup {[DocBase EXCEPT !.broker = "Gibson", !.kind = "table", !.lines = l, !.n = n] :
            l \in SeqsUpTo(1..Len(GibsonLineTemplates), MaxRows), n \in 0..1}
    \cup {[DocBase EXCEPT !.broker = "Gibson", !.kind = "table", !.rows = <<r>>,
                          !.lines = <<l>>] :
            r \in 1..Len(GibsonTemplates), l \in 1..Len(GibsonLineTemplates)}
    \cup {[DocBase EXCEPT !.broker = "Gibson", !.kind = "lines", !.lines = l] :
            l \in SeqsUpTo(1..Len(GibsonLineAlphabet), MaxLines)}

GibsonDocCells(d) ==
    (IF d.half THEN <<Spurious>> ELSE <<>>)
    \o Flatten([k \in 1..Len(d.rows) |-> GibsonRowCells(GibsonTemplates[d.rows[k]])])

GibsonRender(d) ==
    IF d.kind = "lines"
    THEN Join([k \in 1..Len(d.lines) |-> GibsonLineAlphabet[d.lines[k]]], <<"\n">>)
    ELSE Join(<<GibsonTitle, GibsonDateLine>>
                \o (IF d.n = 1 THEN GibsonCOLS ELSE IF d.n = 2 THEN Tail(GibsonCOLS) ELSE <<>>)
                \o GibsonDocCells(d)
                \o [k \in 1..Len(d.lines) |-> GibsonLineTemplates[d.lines[k]]],
              <<"\n">>)

\* Poten table rows, one field per cell
PotenTemplates == <<
    << <<"G","a","s"," ","A">>, <<"8","4","/","b","l","t","1","6">>, <<"1","6","-","1","7"," ","M","a","r","c","h">>, <<"-">>, <<"O","W","N">>, <<"o","p","e","n">> >>,
    << <<"B">>, <<"8","3","/","b","l","t","1","8">>, <<"2","-","3"," ","A","p","r","i","l">>, <<"5","-","6"," ","A","p","r","i","l">>, <<"X","Y">>, <<"t","b","c">> >> >>

\* lines below the table header: the first row with tabs between its fields,
\* five fields of the second with two spaces between them, a section label, a
\* line that is no row, a row of seven fields, a blank line
PotenLineTemplates == <<
    Join(PotenTemplates[1], <<"\t">>),
    Join(SubSeq(PotenTemplates[2], 1, 5), <<" ", " ">>),
    <<"E","a","s","t",":">>,
    <<"x">>,
    Join(Append(PotenTemplates[1], <<"n","o","w">>), <<"\t">>),
    <<>> >>

PotenTitle == <<"W","e","s","t",":">>
PotenHeader == << <<"V","e","s","s","e","l">>, <<"S","i","z","e","/","B","u","i","l","t">>, <<"E","T","A"," ","U","S","G">>, <<"E","T","A"," ","M","a","r","c","u","s"," ","H","o","o","k">>, <<"O","w","n","e","r">>, <<"A","d","d","i","t","i","o","n","a","l"," ","C","o","m","m","e","n","t","s">> >>

PotenLineAlphabet == <<
    PotenTitle, <<" ","w","e","s","t",":"," ","\r">>, <<"s","e","e"," ","W","e","s","t",":","x">>, Join(PotenHeader, <<"\t">>),
    <<>>, <<" ","\t">>, <<"x">> >>

\* kind "table": the title, the column labels (n = 0: on one line, n = 1: one
\* per line), a spurious cell when half, the rows one cell per line, then the
\* lines
PotenDocs ==
    {[DocBase EXCEPT !.broker = "Poten", !.kind = "table", !.rows = r, !.half = h, !.n = n] :
        r \in SeqsUpTo(1..Len(PotenTemplates), MaxRows), h \in BOOLEAN, n \in 0..1}
    \cup {[DocBase EXCEPT !.broker = "Poten", !.kind = "table", !.lines = l, !.n = n] :
            l \in SeqsUpTo(1..Len(PotenLineTemplates), MaxRows), n \in 0..1}
    \cup {[DocBase EXCEPT !.broker = "Poten", !.kind = "table", !.rows = <<r>>,
                          !.lines = <<l>>] :
            r \in 1..Len(PotenTemplates), l \in 1..Len(PotenLineTemplates)}
    \cup {[DocBase EXCEPT !.broker = "Poten", !.kind = "lines", !.lines = l] :
            l \in SeqsUpTo(1..Len(PotenLineAlphabet), MaxLines)}

PotenDocCells(d) ==
    (IF d.half THEN <<Spurious>> ELSE <<>>)
    \o Flatten([k \in 1..Len(d.rows) |-> PotenTemplates[d.rows[k]]])

PotenRender(d) ==
    IF d.kind = "lines"
    THEN Join([k \in 1..Len(d.lines) |-> PotenLineAlphabet[d.lines[k]]], <<"\n">>)
    ELSE Join(<<PotenTitle>>
                \o (IF d.n = 1 THEN PotenHeader ELSE <<Join(PotenHeader, <<"\t">>)>>)
                \o PotenDocCells(d)
                \o [k \in 1..Len(d.lines) |-> PotenLineTemplates[d.lines[k]]],
              <<"\n">>)

\* Fearnleys bodies: header lines, two position lines, a wrapped line, a blank
\* line, three blank lines, a section header
FearnleysLineAlphabet == <<
    <<"U","S","G"," ","P","o","s","i","t","i","o","n","s">>, <<" ","u","s","g"," "," ","p","o","s","i","t","i","o","n","s","\t">>, <<"s","e","e"," ","U","S","G"," ","p","o","s","i","t","i","o","n","s",".">>,
    <<"1","4","-","1","7"," ","M","a","r",":"," ","O","w","n","e","r"," ","/"," ","V","e","s","s","e","l"," ","A"," ","(","o","p","e","n",")">>,
    <<"E","n","d"," ","M","a","r"," ",":"," ","B","W","/","G","a","s"," "," ","B"," ","(","a",")","(","b",")"," ","-"," ">>,
    <<"c","o","n","t">>, <<>>, <<"\n","\n">>,
    <<"F","R","E","I","G","H","T"," ","R","A","T","E","S">> >>

FearnleysDocs ==
    {[DocBase EXCEPT !.broker = "Fearnleys", !.kind = "lines", !.lines = l] :
        l \in SeqsUpTo(1..Len(FearnleysLineAlphabet), MaxLines)}

FearnleysRender(d) ==
    Join([k \in 1..Len(d.lines) |-> FearnleysLineAlphabet[d.lines[k]]], <<"\n">>)

Docs == AffinityDocs \cup GibsonDocs \cup PotenDocs \cup FearnleysDocs
Render(d) ==
    IF d.broker = "Affinity" THEN AffinityRender(d)
    ELSE IF d.broker = "Gibson" THEN GibsonRender(d)
    ELSE IF d.broker = "Poten" THEN PotenRender(d)
    ELSE FearnleysRender(d)

(***************************************************************************)
(* The extraction of one document.                                         *)
(***************************************************************************)

InitExt ==
    /\ doc \in Docs
    /\ broker = doc.broker
    /\ body = Render(doc)
    /\ pc = "start"
    /\ found = FALSE
    /\ cells = <<>>
    /\ lines = <<>>
    /\ cur = 0
    /\ failures = 0
    /\ started = FALSE
    /\ rows = <<>>
    /\ origin = <<>>
    /\ tried = {}
    /\ abandoned = 0

\* the variables of the tokenization and batch models, unused elsewhere
InitRest ==
    /\ twin = <<>> /\ twinCells = <<>> /\ normalized = <<>>
    /\ batch = <<>> /\ sink = <<>> /\ logged = {}
    /\ mailbox = <<>> /\ index = {} /\ saved = {} /\ attached = {}
    /\ recorded = <<>> /\ runNo = 0

Init ==
    /\ InitExt
    /\ expr = <<>> /\ ref = NoRef /\ nowYear = 0
    /\ parsedMonth = 0 /\ inferredYear = 0 /\ res = NoDates
    /\ InitRest

\* main(), lines 239-245: cells = extract_usg_cells(body); an absent or empty
\* cell list skips the document
AffinityLocate ==
    /\ broker = "Affinity" /\ pc = "start"
    /\ \E r \in {extract_usg_cells(body)} :
           /\ found' = r.found
           /\ cells' = r.cells
           /\ pc' = IF r.found /\ r.cells # <<>> THEN "parse" ELSE "done"
    /\ tried' = IF pc' = "parse" THEN {"cells"} ELSE tried
    /\ UNCHANGED <<broker, doc, body, lines, cur, failures, started, rows, origin, abandoned>>
    /\ UNCHANGED <<dateVars, textVars, batchVars, downloadVars>>

AffinityInLoop == broker = "Affinity" /\ pc = "parse"
AffinityHasCandidate == cur < Len(cells) /\ cur + 4 <= Len(cells)

\* lines 160-162: the loop condition fails, or fewer than four cells remain
AffinityLoopExit ==
    /\ AffinityInLoop /\ ~AffinityHasCandidate
    /\ pc' = "done"
    /\ UNCHANGED <<broker, doc, body, found, cells, lines, cur, failures, started, rows,
                   origin, tried, abandoned>>
    /\ UNCHANGED <<dateVars, textVars, batchVars, downloadVars>>

\* lines 170-175: Built or CBM fails its pattern
AffinityValidateFail ==
    /\ AffinityInLoop /\ AffinityHasCandidate
    /\ ~RowStartValid(cells, cur)
    /\ cur' = cur + 1
    /\ failures' = failures + 1
    /\ pc' = IF failures' > AffinityFailLimit THEN "done" ELSE "parse"
    /\ abandoned' = abandoned + 1
    /\ UNCHANGED <<broker, doc, body, found, cells, lines, started, rows, origin, tried>>
    /\ UNCHANGED <<dateVars, textVars, batchVars, downloadVars>>

\* a variant that goes round the loop again without moving the cursor
AffinityAbandonInPlace ==
    /\ AffinityInLoop /\ AffinityHasCandidate
    /\ RowStartValid(cells, cur)
    /\ ~ScanPosition(cells, cur + 4, <<>>).hit
    /\ failures' = 0
    /\ abandoned' = Min(abandoned + 1, Len(cells))
    /\ UNCHANGED <<broker, doc, body, pc, found, cells, lines, cur, started, rows, origin,
                   tried>>
    /\ UNCHANGED <<dateVars, textVars, batchVars, downloadVars>>

\* lines 177-198: the row start is valid but no ETA cell ends the position
AffinityAbandon ==
    /\ AffinityInLoop /\ AffinityHasCandidate
    /\ RowStartValid(cells, cur)
    /\ ~ScanPosition(cells, cur + 4, <<>>).hit
    /\ failures' = 0
    /\ cur' = cur + 1
    /\ abandoned' = abandoned + 1
    /\ UNCHANGED <<broker, doc, body, pc, found, cells, lines, started, rows, origin, tried>>
    /\ UNCHANGED <<dateVars, textVars, batchVars, downloadVars>>

\* lines 177-215: the row is appended and the cursor moves past its Notes cell
AffinityEmit ==
    /\ AffinityInLoop /\ AffinityHasCandidate
    /\ RowStartValid(cells, cur)
    /\ ScanPosition(cells, cur + 4, <<>>).hit
    /\ failures' = 0
    /\ rows' = Append(rows, AffinityRow(cells, cur))
    /\ origin' = Append(origin, "cells")
    /\ cur' = ScanPosition(cells, cur + 4, <<>>).j + 1
    /\ abandoned' = 0
    /\ UNCHANGED <<broker, doc, body, pc, found, cells, lines, started, tried>>
    /\ UNCHANGED <<dateVars, textVars, batchVars, downloadVars>>

\* extract_west_position_table, lines 178-230: the section and its date line
\* are located, the column labels skipped and the vertical parse begins
GibsonLocate ==
    /\ broker = "Gibson" /\ pc = "start"
    /\ \E r \in {GibsonLocated(body)} :
           /\ found' = r.found
           /\ cells' = r.tail
           /\ lines' = r.lines
           /\ cur' = r.i
           /\ pc' = IF r.found THEN "vertical" ELSE "done"
           /\ tried' = IF r.found THEN {"vertical"} ELSE tried
    /\ UNCHANGED <<broker, doc, body, failures, started, rows, origin, abandoned>>
    /\ UNCHANGED <<dateVars, textVars, batchVars, downloadVars>>

GibsonInVertical == broker = "Gibson" /\ pc = "vertical"
GibsonHasChunk == cur + 8 < Len(cells)

\* the one-line parse entered whatever the vertical parse gave
AfterVerticalAlways(rs) == "fallback"

\* lines 259-263 with rows = rs: return the vertical rows, or go on to the
\* one-line parse
AfterVertical(rs) == IF rs # <<>> THEN "done" ELSE "fallback"

\* lines 231-257: the chunk of nine cells passes the checks and becomes a row
GibsonVerticalEmit ==
    /\ GibsonInVertical /\ GibsonHasChunk
    /\ GibsonChunkOk(cells, cur)
    /\ rows' = Append(rows, GibsonVerticalRow(cells, cur))
    /\ origin' = Append(origin, "vertical")
    /\ cur' = cur + 9
    /\ abandoned' = 0
    /\ UNCHANGED <<broker, doc, body, pc, found, cells, lines, failures, started, tried>>
    /\ UNCHANGED <<dateVars, textVars, batchVars, downloadVars>>

\* lines 236-242 and 259-263: a chunk that fails a check ends the vertical parse
GibsonVerticalBreak ==
    /\ GibsonInVertical /\ GibsonHasChunk
    /\ ~GibsonChunkOk(cells, cur)
    /\ pc' = AfterVertical(rows)
    /\ tried' = IF pc' = "fallback" THEN tried \cup {"fallback"} ELSE tried
    /\ cur' = IF pc' = "fallback" THEN 0 ELSE cur
    /\ abandoned' = abandoned + 1
    /\ UNCHANGED <<broker, doc, body, found, cells, lines, failures, started, rows, origin>>
    /\ UNCHANGED <<dateVars, textVars, batchVars, downloadVars>>

\* lines 231 and 259-263: fewer than nine cells are left
GibsonVerticalEnd ==
    /\ GibsonInVertical /\ ~GibsonHasChunk
    /\ pc' = AfterVertical(rows)
    /\ tried' = IF pc' = "fallback" THEN tried \cup {"fallback"} ELSE tried
    /\ cur' = IF pc' = "fallback" THEN 0 ELSE cur
    /\ UNCHANGED <<broker, doc, body, found, cells, lines, failures, started, rows, origin,
                   abandoned>>
    /\ UNCHANGED <<dateVars, textVars, batchVars, downloadVars>>

GibsonInFallback == broker = "Gibson" /\ pc = "fallback"

\* line 263: the lines are exhausted
GibsonFallbackEnd ==
    /\ GibsonInFallback /\ cur >= Len(lines)
    /\ pc' = "done"
    /\ UNCHANGED <<broker, doc, body, found, cells, lines, cur, failures, started, rows,
                   origin, tried, abandoned>>
    /\ UNCHANGED <<dateVars, textVars, batchVars, downloadVars>>

\* lines 264-267: a blank line ends the table once a row has been read
GibsonFallbackBlank ==
    /\ GibsonInFallback /\ cur < Len(lines)
    /\ lines[cur + 1] = <<>>
    /\ IF started /\ rows # <<>>
       THEN pc' = "done" /\ cur' = cur
       ELSE pc' = pc /\ cur' = cur + 1
    /\ UNCHANGED <<broker, doc, body, found, cells, lines, failures, started, rows,
                   origin, tried, abandoned>>
    /\ UNCHANGED <<dateVars, textVars, batchVars, downloadVars>>

\* lines 269-275: a line that is no row; six of them in a row end the table
GibsonFallbackMiss ==
    /\ GibsonInFallback /\ cur < Len(lines)
    /\ lines[cur + 1] # <<>>
    /\ ~ROW_RE(lines[cur + 1]).ok
    /\ IF started
       THEN /\ failures' = failures + 1
            /\ IF failures' >= GibsonMissLimit
               THEN pc' = "done" /\ cur' = cur
               ELSE pc' = pc /\ cur' = cur + 1
       ELSE failures' = failures /\ pc' = pc /\ cur' = cur + 1
    /\ UNCHANGED <<broker, doc, body, found, cells, lines, started, rows, origin, tried,
                   abandoned>>
    /\ UNCHANGED <<dateVars, textVars, batchVars, downloadVars>>

\* lines 269-291: a line that is a row
GibsonFallbackMatch ==
    /\ GibsonInFallback /\ cur < Len(lines)
    /\ lines[cur + 1] # <<>>
    /\ \E rm \in {ROW_RE(lines[cur + 1])} :
           rm.ok /\ rows' = Append(rows, rm.row)
    /\ started' = TRUE
    /\ failures' = 0
    /\ origin' = Append(origin, "fallback")
    /\ cur' = cur + 1
    /\ UNCHANGED <<broker, doc, body, pc, found, cells, lines, tried, abandoned>>
    /\ UNCHANGED <<dateVars, textVars, batchVars, downloadVars>>

\* extract_poten_west_rows, lines 101-150: the section and the table header are
\* located and the one-line parse begins
PotenLocate ==
    /\ broker = "Poten" /\ pc = "start"
    /\ \E r \in {PotenLocated(body)} :
           /\ found' = r.found
           /\ lines' = r.data_lines
           /\ pc' = IF r.found THEN "horizontal" ELSE "done"
           /\ tried' = IF r.found THEN {"horizontal"} ELSE tried
    /\ UNCHANGED <<broker, doc, body, cells, cur, failures, started, rows, origin, abandoned>>
    /\ UNCHANGED <<dateVars, textVars, batchVars, downloadVars>>

PotenInHorizontal == broker = "Poten" /\ pc = "horizontal"
PotenBlank(ln) == Strip(ln) = <<>>

\* lines 175-178 with rows = rs: return the one-line rows, or go on to the
\* vertical parse
AfterHorizontal(rs) == IF rs # <<>> THEN "done" ELSE "vertical"

\* lines 154-163: a blank line or a line of fewer than five parts is passed over
PotenHorizSkip ==
    /\ PotenInHorizontal /\ cur < Len(lines)
    /\ \/ PotenBlank(lines[cur + 1])
       \/ /\ ~PotenBlank(lines[cur + 1])
          /\ ~is_section_label(lines[cur + 1])
          /\ Len(smart_split(lines[cur + 1])) < 5
    /\ cur' = cur + 1
    /\ UNCHANGED <<broker, doc, body, pc, found, cells, lines, failures, started, rows,
                   origin, tried, abandoned>>
    /\ UNCHANGED <<dateVars, textVars, batchVars, downloadVars>>

\* lines 161-173: a line of five or more parts becomes a row
PotenHorizEmit ==
    /\ PotenInHorizontal /\ cur < Len(lines)
    /\ ~PotenBlank(lines[cur + 1])
    /\ ~is_section_label(lines[cur + 1])
    /\ \E parts \in {smart_split(lines[cur + 1])} :
           Len(parts) >= 5 /\ rows' = Append(rows, PotenRow(PotenSix(parts)))
    /\ started' = TRUE
    /\ origin' = Append(origin, "horizontal")
    /\ cur' = cur + 1
    /\ UNCHANGED <<broker, doc, body, pc, found, cells, lines, failures, tried, abandoned>>
    /\ UNCHANGED <<dateVars, textVars, batchVars, downloadVars>>

\* lines 153-186: the lines are exhausted or a section label is met; without
\* rows the tokens of the vertical parse are collected
PotenHorizEnd ==
    /\ PotenInHorizontal
    /\ \/ cur >= Len(lines)
       \/ /\ cur < Len(lines)
          /\ ~PotenBlank(lines[cur + 1])
          /\ is_section_label(lines[cur + 1])
    /\ pc' = AfterHorizontal(rows)
    /\ IF pc' = "vertical"
       THEN cells' = PotenTokens(lines) /\ cur' = 0 /\ tried' = tried \cup {"vertical"}
       ELSE UNCHANGED <<cells, cur, tried>>
    /\ UNCHANGED <<broker, doc, body, found, lines, failures, started, rows, origin,
                   abandoned>>
    /\ UNCHANGED <<dateVars, textVars, batchVars, downloadVars>>

PotenInVertical == broker = "Poten" /\ pc = "vertical"

\* lines 188-192: the next six tokens become a row
PotenVerticalEmit ==
    /\ PotenInVertical /\ cur + 6 <= Len(cells)
    /\ rows' = Append(rows, PotenRow(SubSeq(cells, cur + 1, cur + 6)))
    /\ origin' = Append(origin, "vertical")
    /\ cur' = cur + 6
    /\ UNCHANGED <<broker, doc, body, pc, found, cells, lines, failures, started, tried,
                   abandoned>>
    /\ UNCHANGED <<dateVars, textVars, batchVars, downloadVars>>

\* lines 188-194: fewer than six tokens are left
PotenVerticalEnd ==
    /\ PotenInVertical /\ cur + 6 > Len(cells)
    /\ pc' = "done"
    /\ UNCHANGED <<broker, doc, body, found, cells, lines, cur, failures, started, rows,
                   origin, tried, abandoned>>
    /\ UNCHANGED <<dateVars, textVars, batchVars, downloadVars>>

\* extract_usg_positions_lines, lines 89-104: the header is located and the
\* lines after it are stripped; without a header no line is returned
FearnleysLocate ==
    /\ broker = "Fearnleys" /\ pc = "start"
    /\ \E r \in {FearnleysLocated(body)} :
           /\ found' = r.found
           /\ lines' = r.lines
           /\ pc' = IF r.found THEN "collect" ELSE "done"
           /\ tried' = IF r.found THEN {"lines"} ELSE tried
    /\ UNCHANGED <<broker, doc, body, cells, cur, failures, started, rows, origin, abandoned>>
    /\ UNCHANGED <<dateVars, textVars, batchVars, downloadVars>>

FearnleysInLoop == broker = "Fearnleys" /\ pc = "collect" /\ cur < Len(lines)
FearnleysStops(ln) == started /\ FearnleysSectionHeader(ln)

\* lines 107-112: a blank line; the third in a row after the first position
\* line ends the collection
FearnleysBlank ==
    /\ FearnleysInLoop
    /\ lines[cur + 1] = <<>>
    /\ IF started
       THEN /\ failures' = failures + 1
            /\ IF failures' >= FearnleysBlankLimit
               THEN pc' = "parse" /\ cur' = cur
               ELSE pc' = pc /\ cur' = cur + 1
       ELSE failures' = failures /\ pc' = pc /\ cur' = cur + 1
    /\ UNCHANGED <<broker, doc, body, found, cells, lines, started, rows, origin, tried,
                   abandoned>>
    /\ UNCHANGED <<dateVars, textVars, batchVars, downloadVars>>

\* lines 115-116: a section header ends the collection
FearnleysHeaderStop ==
    /\ FearnleysInLoop
    /\ lines[cur + 1] # <<>>
    /\ FearnleysStops(lines[cur + 1])
    /\ pc' = "parse"
    /\ UNCHANGED <<broker, doc, body, found, cells, lines, cur, failures, started, rows,
                   origin, tried, abandoned>>
    /\ UNCHANGED <<dateVars, textVars, batchVars, downloadVars>>

\* lines 119-122: a line with ":" and "/" is a position line
FearnleysData ==
    /\ FearnleysInLoop
    /\ lines[cur + 1] # <<>>
    /\ ~FearnleysStops(lines[cur + 1])
    /\ FearnleysDataLine(lines[cur + 1])
    /\ started' = TRUE
    /\ failures' = 0
    /\ cells' = Append(cells, lines[cur + 1])
    /\ cur' = cur + 1
    /\ UNCHANGED <<broker, doc, body, pc, found, lines, rows, origin, tried, abandoned>>
    /\ UNCHANGED <<dateVars, textVars, batchVars, downloadVars>>

\* lines 123-126: any other line continues the last position line, if any
FearnleysOther ==
    /\ FearnleysInLoop
    /\ lines[cur + 1] # <<>>
    /\ ~FearnleysStops(lines[cur + 1])
    /\ ~FearnleysDataLine(lines[cur + 1])
    /\ cells' = IF started /\ cells # <<>>
                THEN [cells EXCEPT ![Len(cells)] = @ \o <<" ">> \o lines[cur + 1]]
                ELSE cells
    /\ cur' = cur + 1
    /\ UNCHANGED <<broker, doc, body, pc, found, lines, failures, started, rows, origin,
                   tried, abandoned>>
    /\ UNCHANGED <<dateVars, textVars, batchVars, downloadVars>>

\* line 106: the lines are exhausted
FearnleysCollected ==
    /\ broker = "Fearnleys" /\ pc = "collect" /\ cur >= Len(lines)
    /\ pc' = "parse"
    /\ UNCHANGED <<broker, doc, body, found, cells, lines, cur, failures, started, rows,
                   origin, tried, abandoned>>
    /\ UNCHANGED <<dateVars, textVars, batchVars, downloadVars>>

\* main, lines 277-299: each collected line parse_line accepts becomes a record
FearnleysParse ==
    /\ broker = "Fearnleys" /\ pc = "parse"
    /\ \E rs \in {FearnleysRecords(cells)} :
           /\ rows' = rs
           /\ origin' = Repeat("lines", Len(rs))
    /\ pc' = "done"
    /\ UNCHANGED <<broker, doc, body, found, cells, lines, cur, failures, started, tried,
                   abandoned>>
    /\ UNCHANGED <<dateVars, textVars, batchVars, downloadVars>>

Next ==
    \/ AffinityLocate
    \/ AffinityLoopExit
    \/ AffinityValidateFail
    \/ AffinityAbandon
    \/ AffinityEmit
    \/ GibsonLocate
    \/ GibsonVerticalEmit
    \/ GibsonVerticalBreak
    \/ GibsonVerticalEnd
    \/ GibsonFallbackEnd
    \/ GibsonFallbackBlank
    \/ GibsonFallbackMiss
    \/ GibsonFallbackMatch
    \/ PotenLocate
    \/ PotenHorizSkip
    \/ PotenHorizEmit
    \/ PotenHorizEnd
    \/ PotenVerticalEmit
    \/ PotenVerticalEnd
    \/ FearnleysLocate
    \/ FearnleysBlank
    \/ FearnleysHeaderStop
    \/ FearnleysData
    \/ FearnleysOther
    \/ FearnleysCollected
    \/ FearnleysParse

Spec == Init /\ [][Next]_vars

(***************************************************************************)
(* parse_usg_rows_from_cells on a token stream of its own: every short     *)
(* stream over three kinds of cell, and the long streams of cells of no    *)
(* shape that the documents of kind "junk" hold.                           *)
(***************************************************************************)
MaxTokens == 6

\* a cell of no shape, a cell that is a valid Built and a valid CBM, an ETA cell
StreamTokens == << <<"V">>, <<"2","0","1","6">>, <<"5"," ","A","p","r">> >>

InitAssembly ==
    /\ broker = "Affinity"
    /\ \/ /\ doc \in {d \in AffinityDocs : d.kind = "junk"}
          /\ cells = AffinityDocCells(doc)
       \/ /\ doc = [DocBase EXCEPT !.kind = "stream"]
          /\ cells \in {[k \in 1..Len(t) |-> StreamTokens[t[k]]] :
                            t \in SeqsUpTo(1..Len(StreamTokens), MaxTokens)}
    /\ body = <<>> /\ pc = "parse" /\ found = TRUE
    /\ lines = <<>> /\ cur = 0 /\ failures = 0 /\ started = FALSE
    /\ rows = <<>> /\ origin = <<>> /\ tried = {"cells"} /\ abandoned = 0
    /\ expr = <<>> /\ ref = NoRef /\ nowYear = 0
    /\ parsedMonth = 0 /\ inferredYear = 0 /\ res = NoDates
    /\ InitRest

NextAssembly ==
    \/ AffinityLoopExit
    \/ AffinityValidateFail
    \/ AffinityAbandon
    \/ AffinityEmit

\* the function is sequential code: an iteration that can run does run
SpecAssembly == InitAssembly /\ [][NextAssembly]_vars /\ WF_vars(NextAssembly)

(***************************************************************************)
(* Date resolution of one expression, and year inference for one month:    *)
(* the expression is rendered from a description (doc) and resolved        *)
(* against a reference timestamp.                                          *)
(***************************************************************************)
DayStrs == << <<"0">>, <<"1">>, <<"0","5">>, <<"0","6">>, <<"2","9">>, <<"3","0">>, <<"3","1">>, <<"3","2">> >>
MonthNames == <<
    <<"J","a","n">>, <<"F","E","B">>, <<"M","a","r">>, <<"a","p","r">>, <<"M","a","r","c","h">>,
    <<"f","e","b","r","u","a","r","y">>, <<"M","a","y">>, <<"S","e","p","t">>, <<"D","e","c">>, <<"X","y","z">> >>
BucketWords == << <<"E","a","r","l","y">>, <<"m","i","d">>, <<"L","A","T","E">>, <<"E","n","d">>, <<"S","o","o","n">> >>

DateDocBase == [broker |-> "Fearnleys", kind |-> "range", a |-> 1, b |-> 1, mon |-> 1,
                fmt |-> 1]

\* kind "range": the days a and b and the month in one of four layouts; kind
\* "single": the day a and the month; kind "bucket": the word a and the month;
\* kind "year": no expression, infer_year alone
DateDocs ==
    UNION {
        {[DateDocBase EXCEPT !.broker = br, !.a = a, !.b = b, !.mon = m, !.fmt = f] :
            a \in 1..Len(DayStrs), b \in 1..Len(DayStrs), m \in 1..Len(MonthNames),
            f \in 1..4}
        \cup {[DateDocBase EXCEPT !.broker = br, !.kind = "single", !.a = a, !.mon = m] :
            a \in 1..Len(DayStrs), m \in 1..Len(MonthNames)}
        \cup {[DateDocBase EXCEPT !.broker = br, !.kind = "bucket", !.a = a, !.mon = m] :
            a \in 1..Len(BucketWords), m \in 1..Len(MonthNames)}
        \cup (IF br \in {"Fearnleys", "Poten"}
              THEN {[DateDocBase EXCEPT !.broker = br, !.kind = "year"]} ELSE {}) :
        br \in {"Affinity", "Fearnleys", "Gibson", "Poten"}}

RenderDate(d) ==
    LET a == DayStrs[d.a]
        b == DayStrs[d.b]
        mon == MonthNames[d.mon]
    IN  IF d.kind = "year" THEN <<>>
        ELSE IF d.kind = "single" THEN a \o <<" ">> \o mon
        ELSE IF d.kind = "bucket" THEN BucketWords[d.a] \o <<" ">> \o mon
        ELSE IF d.fmt = 1 THEN a \o <<"-">> \o b \o <<" ">> \o mon
        ELSE IF d.fmt = 2
             THEN <<" ">> \o a \o <<" ", "ENDASH", " ">> \o b \o <<" ", " ">> \o mon \o <<"\t">>
        ELSE IF d.fmt = 3 THEN a \o <<"-">> \o b \o mon
        ELSE a \o <<"-">> \o b \o <<" ">> \o mon \o <<".">>

\* reference timestamps, by year and month
RefYears == {2025, 2028}
Refs(months) == {NoRef} \cup {[has |-> TRUE, year |-> y, month |-> m] :
                                y \in RefYears, m \in months}
\* what datetime.now().year may give
NowYears == {2030, 2031}

InitDates ==
    /\ doc \in DateDocs
    /\ broker = doc.broker
    /\ expr = RenderDate(doc)
    /\ IF doc.kind = "year"
       THEN pc = "infer" /\ ref \in Refs(1..12) /\ parsedMonth \in 1..12
       ELSE pc = "resolve" /\ ref \in Refs({2, 12}) /\ parsedMonth = 0
    /\ nowYear \in IF ref.has THEN {2030} ELSE NowYears
    /\ inferredYear = 0
    /\ res = NoDates
    /\ body = <<>> /\ found = FALSE /\ cells = <<>> /\ lines = <<>>
    /\ cur = 0 /\ failures = 0 /\ started = FALSE
    /\ rows = <<>> /\ origin = <<>> /\ tried = {} /\ abandoned = 0
    /\ InitRest

\* main, line 289: parse_eta_dates(rec["ETA_raw"], sent_dt)
FearnleysResolve ==
    /\ broker = "Fearnleys" /\ pc = "resolve"
    /\ res' = parse_eta_dates(expr, ref, nowYear)
    /\ pc' = "done"
    /\ UNCHANGED <<broker, doc, body, found, cells, lines, cur, failures, started, rows,
                   origin, tried, abandoned>>
    /\ UNCHANGED <<expr, ref, nowYear, parsedMonth, inferredYear>>
    /\ UNCHANGED <<textVars, batchVars, downloadVars>>

\* main: parse_eta_range(r.get("ETA USG", ""), ref_dt)
PotenResolve ==
    /\ broker = "Poten" /\ pc = "resolve"
    /\ res' = parse_eta_range_poten(expr, ref, nowYear)
    /\ pc' = "done"
    /\ UNCHANGED <<broker, doc, body, found, cells, lines, cur, failures, started, rows,
                   origin, tried, abandoned>>
    /\ UNCHANGED <<expr, ref, nowYear, parsedMonth, inferredYear>>
    /\ UNCHANGED <<textVars, batchVars, downloadVars>>

\* Fearnleys infer_year(ref_dt, month)
FearnleysInferYear ==
    /\ broker = "Fearnleys" /\ pc = "infer"
    /\ inferredYear' = infer_year_fearnleys(ref, parsedMonth, nowYear)
    /\ pc' = "done"
    /\ UNCHANGED <<broker, doc, body, found, cells, lines, cur, failures, started, rows,
                   origin, tried, abandoned>>
    /\ UNCHANGED <<expr, ref, nowYear, parsedMonth, res>>
    /\ UNCHANGED <<textVars, batchVars, downloadVars>>

\* Poten infer_year(ref_dt, month)
PotenInferYear ==
    /\ broker = "Poten" /\ pc = "infer"
    /\ inferredYear' = infer_year_poten(ref, parsedMonth, nowYear)
    /\ pc' = "done"
    /\ UNCHANGED <<broker, doc, body, found, cells, lines, cur, failures, started, rows,
                   origin, tried, abandoned>>
    /\ UNCHANGED <<expr, ref, nowYear, parsedMonth, res>>
    /\ UNCHANGED <<textVars, batchVars, downloadVars>>

\* Affinity main, lines 274-284: parse_eta_range(row["ETA USG"],
\* row.get("Email Sent Date", "")) and the midpoint; the ValueError of line 94
\* is not caught
AffinityResolve ==
    /\ broker = "Affinity" /\ pc = "resolve"
    /\ \E r \in {parse_eta_range_affinity(expr, to_local_time_str(ref), nowYear)} :
           /\ res' = WithMid(r)
           /\ pc' = IF r.raised THEN "raised" ELSE "done"
    /\ UNCHANGED <<broker, doc, body, found, cells, lines, cur, failures, started, rows,
                   origin, tried, abandoned>>
    /\ UNCHANGED <<expr, ref, nowYear, parsedMonth, inferredYear>>
    /\ UNCHANGED <<textVars, batchVars, downloadVars>>

\* Gibson main, lines 319-321: the report date's year, else the current year
\* (no sent date)
GibsonRefYear(r, now) == IF r.has THEN r.year ELSE now

\* Gibson main, lines 333-336: parse_eta_usg_range(r.get("ETA USG", ""),
\* ref_year) and the midpoint
GibsonResolve ==
    /\ broker = "Gibson" /\ pc = "resolve"
    /\ res' = WithMid(parse_eta_usg_range(expr, GibsonRefYear(ref, nowYear)))
    /\ pc' = "done"
    /\ UNCHANGED <<broker, doc, body, found, cells, lines, cur, failures, started, rows,
                   origin, tried, abandoned>>
    /\ UNCHANGED <<expr, ref, nowYear, parsedMonth, inferredYear>>
    /\ UNCHANGED <<textVars, batchVars, downloadVars>>

NextDates ==
    \/ AffinityResolve
    \/ GibsonResolve
    \/ FearnleysResolve
    \/ PotenResolve
    \/ FearnleysInferYear
    \/ PotenInferYear

SpecDates == InitDates /\ [][NextDates]_vars

(***************************************************************************)
(* Normalization and tokenization of one text: normalize_text of each      *)
(* extractor on a short string, and the two tokenizers on two inputs that  *)
(* hold the same values with different whitespace around them.             *)
(***************************************************************************)
MaxText == 3
MaxPad == 1

TextAlphabet == {"a", " ", "-", "\n", "\r", "NBSP", "ENDASH", "EMDASH"}
TextValues == << <<"A">>, <<"B"," ","C">> >>

\* whitespace around a cell on its line and blank lines after it
Layouts == [lead : 0..MaxPad, trail : 0..MaxPad, blank : 0..MaxPad]
\* what separates two values on a line: a run of tabs or a run of two or more
\* spaces
Separators ==
    {Repeat("\t", n) : n \in 1..(MaxPad + 1)} \cup {Repeat(" ", n) : n \in 2..(MaxPad + 2)}

TextDocBase == [broker |-> "Affinity", kind |-> "normalize", text |-> <<>>, vals |-> <<>>,
                lay |-> [lead |-> 0, trail |-> 0, blank |-> 0],
                lay2 |-> [lead |-> 0, trail |-> 0, blank |-> 0],
                seps |-> <<>>, seps2 |-> <<>>]

\* kind "normalize": a string for normalize_text; kind "cells": one or two
\* values one per line under the Affinity anchors, in two layouts; kind
\* "split": three values on one line, with two choices of separators
TextDocs ==
    {[TextDocBase EXCEPT !.broker = br, !.text = t] :
        br \in {"Affinity", "Fearnleys", "Gibson", "Poten"},
        t \in SeqsUpTo(TextAlphabet, MaxText)}
    \cup {[TextDocBase EXCEPT !.kind = "cells", !.vals = v, !.lay = l, !.lay2 = l2] :
        v \in SeqsUpTo(1..Len(TextValues), 2) \ {<<>>}, l \in Layouts, l2 \in Layouts}
    \cup {[TextDocBase EXCEPT !.broker = br, !.kind = "split", !.vals = v,
                              !.seps = sp, !.seps2 = sp2] :
        br \in {"Gibson", "Poten"}, v \in [1..3 -> 1..Len(TextValues)],
        sp \in [1..2 -> Separators], sp2 \in [1..2 -> Separators]}

\* the values one per line after the lines "USG" and "Notes"
RenderCells(vals, l) ==
    <<"U","S","G","\n","N","o","t","e","s","\n">>
    \o Flatten([k \in 1..Len(vals) |->
                   Repeat(" ", l.lead) \o TextValues[vals[k]] \o Repeat(" ", l.trail)
                   \o <<"\n">> \o Repeat("\n", l.blank)])

\* the three values on one line
RenderLine(vals, sp) ==
    TextValues[vals[1]] \o sp[1] \o TextValues[vals[2]] \o sp[2] \o TextValues[vals[3]]

RenderText(d, second) ==
    IF d.kind = "normalize" THEN (IF second THEN <<>> ELSE d.text)
    ELSE IF d.kind = "cells" THEN RenderCells(d.vals, IF second THEN d.lay2 ELSE d.lay)
    ELSE RenderLine(d.vals, IF second THEN d.seps2 ELSE d.seps)

InitText ==
    /\ doc \in TextDocs
    /\ broker = doc.broker
    /\ body = RenderText(doc, FALSE)
    /\ twin = RenderText(doc, TRUE)
    /\ pc = doc.kind
    /\ found = FALSE /\ cells = <<>> /\ lines = <<>>
    /\ cur = 0 /\ failures = 0 /\ started = FALSE
    /\ rows = <<>> /\ origin = <<>> /\ tried = {} /\ abandoned = 0
    /\ expr = <<>> /\ ref = NoRef /\ nowYear = 0
    /\ parsedMonth = 0 /\ inferredYear = 0 /\ res = NoDates
    /\ twinCells = <<>> /\ normalized = <<>>
    /\ batch = <<>> /\ sink = <<>> /\ logged = {}
    /\ mailbox = <<>> /\ index = {} /\ saved = {} /\ attached = {}
    /\ recorded = <<>> /\ runNo = 0

\* normalize_text of the extractor br
normalize_text(br, s) ==
    IF br = "Affinity" THEN normalize_text_affinity(s)
    ELSE IF br = "Gibson" THEN normalize_text_gibson(s)
    ELSE IF br = "Fearnleys" THEN normalize_text_fearnleys(s)
    ELSE normalize_text_poten(s)

NormalizeText ==
    /\ pc = "normalize"
    /\ normalized' = normalize_text(broker, body)
    /\ pc' = "done"
    /\ UNCHANGED <<broker, doc, body, found, cells, lines, cur, failures, started, rows,
                   origin, tried, abandoned, twin, twinCells>>
    /\ UNCHANGED <<dateVars, batchVars, downloadVars>>

\* Affinity extract_usg_cells on both inputs: lines 132-134 split the text
\* after the anchors into cells
TokenizeCells ==
    /\ pc = "cells"
    /\ found' = (extract_usg_cells(body).found /\ extract_usg_cells(twin).found)
    /\ cells' = extract_usg_cells(body).cells
    /\ twinCells' = extract_usg_cells(twin).cells
    /\ pc' = "done"
    /\ UNCHANGED <<broker, doc, body, lines, cur, failures, started, rows,
                   origin, tried, abandoned, twin, normalized>>
    /\ UNCHANGED <<dateVars, batchVars, downloadVars>>

\* smart_split on both inputs (Gibson lines 62-71 and Poten lines 88-98 are
\* the same code)
SplitLine ==
    /\ pc = "split"
    /\ cells' = smart_split(body)
    /\ twinCells' = smart_split(twin)
    /\ pc' = "done"
    /\ UNCHANGED <<broker, doc, body, found, lines, cur, failures, started, rows,
                   origin, tried, abandoned, twin, normalized>>
    /\ UNCHANGED <<dateVars, batchVars, downloadVars>>

NextText ==
    \/ NormalizeText
    \/ TokenizeCells
    \/ SplitLine

SpecText == InitText /\ [][NextText]_vars

(***************************************************************************)
(* main() over a folder of messages (Affinity and Fearnleys).  A message   *)
(* is described by whether it can be read and by the ETA expressions of    *)
(* the rows its table holds; what is written to the workbook is the sink.  *)
(***************************************************************************)
MaxBatch == 2
MaxEtas == 2

\* ETA cells of extracted rows: one that resolves, one whose month is in
\* capitals, one with a day the month does not have
BatchEtas == <<
    <<"1","4","-","2","0"," ","M","a","r">>,
    <<"1","4","-","2","0"," ","M","A","R">>,
    <<"3","0","-","3","1"," ","S","e","p">> >>

Messages ==
    {[readable |-> FALSE, etas |-> <<>>]}
    \cup {[readable |-> TRUE, etas |-> e] : e \in SeqsUpTo(1..Len(BatchEtas), MaxEtas)}

\* the sent date of the messages
BatchSent == [has |-> TRUE, year |-> 2025, month |-> 12]

InitBatch ==
    /\ broker \in {"Affinity", "Fearnleys"}
    /\ batch \in SeqsUpTo(Messages, MaxBatch) \ {<<>>}
    /\ doc = [DocBase EXCEPT !.broker = broker, !.kind = "batch"]
    /\ pc = "scan"
    /\ cur = 0 /\ rows = <<>> /\ sink = <<>> /\ logged = {}
    /\ body = <<>> /\ found = FALSE /\ cells = <<>> /\ lines = <<>>
    /\ failures = 0 /\ started = FALSE
    /\ origin = <<>> /\ tried = {} /\ abandoned = 0
    /\ expr = <<>> /\ ref = BatchSent /\ nowYear \in NowYears
    /\ parsedMonth = 0 /\ inferredYear = 0 /\ res = NoDates
    /\ twin = <<>> /\ twinCells = <<>> /\ normalized = <<>>
    /\ mailbox = <<>> /\ index = {} /\ saved = {} /\ attached = {}
    /\ recorded = <<>> /\ runNo = 0

\* the rows of message number i, before date resolution
MessageRows(i) ==
    [k \in 1..Len(batch[i].etas) |->
        [msg |-> i, row |-> k, eta |-> BatchEtas[batch[i].etas[k]], dates |-> NoDates]]

\* Affinity main, lines 235-257: one message; reading it may raise, which
\* the except of line 256 reports
AffinityScan ==
    /\ broker = "Affinity" /\ pc = "scan" /\ cur < Len(batch)
    /\ IF batch[cur + 1].readable
       THEN rows' = rows \o MessageRows(cur + 1) /\ UNCHANGED logged
       ELSE logged' = logged \cup {cur + 1} /\ UNCHANGED rows
    /\ cur' = cur + 1
    /\ UNCHANGED <<broker, doc, body, pc, found, cells, lines, failures, started,
                   origin, tried, abandoned, batch, sink>>
    /\ UNCHANGED <<dateVars, textVars, downloadVars>>

\* Affinity main, lines 259-261: after the loop; nothing is written when no
\* row was found
AffinityScanEnd ==
    /\ broker = "Affinity" /\ pc = "scan" /\ cur = Len(batch)
    /\ pc' = IF rows = <<>> THEN "done" ELSE "resolve"
    /\ cur' = 0
    /\ UNCHANGED <<broker, doc, body, found, cells, lines, failures, started, rows,
                   origin, tried, abandoned, batch, sink, logged>>
    /\ UNCHANGED <<dateVars, textVars, downloadVars>>

\* Affinity main, lines 273-284: the dates of one row of the frame; a
\* ValueError of parse_eta_range leaves main (lines 305-307: exit status 1)
AffinityResolveRow ==
    /\ broker = "Affinity" /\ pc = "resolve" /\ cur < Len(rows)
    /\ \E r \in {parse_eta_range_affinity(rows[cur + 1].eta, to_local_time_str(ref),
                                          nowYear)} :
           IF r.raised
           THEN pc' = "raised" /\ UNCHANGED <<rows, cur>>
           ELSE /\ rows' = [rows EXCEPT ![cur + 1].dates = WithMid(r)]
                /\ cur' = cur + 1
                /\ UNCHANGED pc
    /\ UNCHANGED <<broker, doc, body, found, cells, lines, failures, started,
                   origin, tried, abandoned, batch, sink, logged>>
    /\ UNCHANGED <<dateVars, textVars, downloadVars>>

\* Affinity main, lines 286-296: df.to_excel
AffinityWrite ==
    /\ broker = "Affinity" /\ pc = "resolve" /\ cur = Len(rows)
    /\ sink' = rows
    /\ pc' = "done"
    /\ UNCHANGED <<broker, doc, body, found, cells, lines, cur, failures, started, rows,
                   origin, tried, abandoned, batch, logged>>
    /\ UNCHANGED <<dateVars, textVars, downloadVars>>

\* Fearnleys main, lines 273-305: one message; its dates are resolved inside
\* the try
FearnleysScan ==
    /\ broker = "Fearnleys" /\ pc = "scan" /\ cur < Len(batch)
    /\ IF batch[cur + 1].readable
       THEN /\ rows' = rows \o [k \in 1..Len(batch[cur + 1].etas) |->
                          [MessageRows(cur + 1)[k] EXCEPT
                              !.dates = parse_eta_dates(BatchEtas[batch[cur + 1].etas[k]],
                                                        ref, nowYear)]]
            /\ UNCHANGED logged
       ELSE logged' = logged \cup {cur + 1} /\ UNCHANGED rows
    /\ cur' = cur + 1
    /\ UNCHANGED <<broker, doc, body, pc, found, cells, lines, failures, started,
                   origin, tried, abandoned, batch, sink>>
    /\ UNCHANGED <<dateVars, textVars, downloadVars>>

\* Fearnleys main, lines 307-331: after the loop; nothing is written when no
\* row was found
FearnleysWrite ==
    /\ broker = "Fearnleys" /\ pc = "scan" /\ cur = Len(batch)
    /\ sink' = rows
    /\ pc' = "done"
    /\ UNCHANGED <<broker, doc, body, found, cells, lines, cur, failures, started, rows,
                   origin, tried, abandoned, batch, logged>>
    /\ UNCHANGED <<dateVars, textVars, downloadVars>>

NextBatch ==
    \/ AffinityScan
    \/ AffinityScanEnd
    \/ AffinityResolveRow
    \/ AffinityWrite
    \/ FearnleysScan
    \/ FearnleysWrite

SpecBatch == InitBatch /\ [][NextBatch]_vars

(***************************************************************************)
(* extract_usg_positions_lines on the lines after the header: every short  *)
(* sequence of blank lines, position lines, other lines and section        *)
(* headers.                                                                *)
(***************************************************************************)
MaxCollect == 6
CollectLines == << <<>>, FearnleysLineAlphabet[4], <<"c","o","n","t">>,
                   <<"F","R","E","I","G","H","T"," ","R","A","T","E","S">> >>

InitCollect ==
    /\ broker = "Fearnleys"
    /\ doc = [DocBase EXCEPT !.broker = "Fearnleys", !.kind = "collect"]
    /\ lines \in {[k \in 1..Len(t) |-> CollectLines[t[k]]] :
                      t \in SeqsUpTo(1..Len(CollectLines), MaxCollect)}
    /\ body = <<>> /\ pc = "collect" /\ found = TRUE
    /\ cells = <<>> /\ cur = 0 /\ failures = 0 /\ started = FALSE
    /\ rows = <<>> /\ origin = <<>> /\ tried = {"lines"} /\ abandoned = 0
    /\ expr = <<>> /\ ref = NoRef /\ nowYear = 0
    /\ parsedMonth = 0 /\ inferredYear = 0 /\ res = NoDates
    /\ InitRest

NextCollect ==
    \/ FearnleysBlank
    \/ FearnleysHeaderStop
    \/ FearnleysData
    \/ FearnleysOther
    \/ FearnleysCollected

SpecCollect == InitCollect /\ [][NextCollect]_vars

(***************************************************************************)
(* pull_all_emails.py: download_folder_mails over the items of one folder, *)
(* with the index of downloaded messages kept from one run of the script     *)
(* to the next.  Whether SaveAs and SaveAsFile succeed is the mail         *)
(* client's choice.                                                        *)
(***************************************************************************)
MaxMail == 3
MaxRuns == 2

\* line 146: the Class of a MailItem
OlMailClass == 43

InitDownload ==
    /\ broker = "Download"
    /\ doc = [DocBase EXCEPT !.broker = "Download", !.kind = "folder"]
    \* 0: an item of another kind
    /\ mailbox \in UNION {[1..n -> {OlMailClass, 0}] : n \in 1..MaxMail}
    /\ index = {} /\ saved = {} /\ attached = {}
    /\ recorded = [k \in 1..Len(mailbox) |-> 0]
    /\ runNo = 1
    /\ body = <<>> /\ pc = "item" /\ found = FALSE
    /\ cells = <<>> /\ lines = <<>> /\ cur = 0 /\ failures = 0 /\ started = FALSE
    /\ rows = <<>> /\ origin = <<>> /\ tried = {} /\ abandoned = 0
    /\ expr = <<>> /\ ref = NoRef /\ nowYear = 0
    /\ parsedMonth = 0 /\ inferredYear = 0 /\ res = NoDates
    /\ twin = <<>> /\ twinCells = <<>> /\ normalized = <<>>
    /\ batch = <<>> /\ sink = <<>> /\ logged = {}

\* the item of this iteration: its entry id is its place in the folder
DownloadAtItem == broker = "Download" /\ pc = "item" /\ cur < Len(mailbox)

\* already_downloaded, lines 64-69
already_downloaded(conn, entry_id) == entry_id \in conn

\* lines 143-150: an item that is no MailItem is passed over
DownloadSkipOther ==
    /\ DownloadAtItem
    /\ mailbox[cur + 1] # OlMailClass
    /\ cur' = cur + 1
    /\ UNCHANGED <<broker, doc, body, pc, found, cells, lines, failures, started, rows,
                   origin, tried, abandoned>>
    /\ UNCHANGED <<dateVars, textVars, batchVars, downloadVars>>

\* lines 156-158: a message of the index is skipped
DownloadSkipKnown ==
    /\ DownloadAtItem
    /\ mailbox[cur + 1] = OlMailClass
    /\ already_downloaded(index, cur + 1)
    /\ cur' = cur + 1
    /\ UNCHANGED <<broker, doc, body, pc, found, cells, lines, failures, started, rows,
                   origin, tried, abandoned>>
    /\ UNCHANGED <<dateVars, textVars, batchVars, downloadVars>>

\* lines 160-174: item.SaveAs writes the .msg file, or raises and a [WARN]
\* line is printed
DownloadSaveMsg ==
    /\ DownloadAtItem
    /\ mailbox[cur + 1] = OlMailClass
    /\ ~already_downloaded(index, cur + 1)
    /\ \E ok \in BOOLEAN : saved' = IF ok THEN saved \cup {cur + 1} ELSE saved
    /\ pc' = "attach"
    /\ UNCHANGED <<broker, doc, body, found, cells, lines, cur, failures, started, rows,
                   origin, tried, abandoned>>
    /\ UNCHANGED <<dateVars, textVars, batchVars>>
    /\ UNCHANGED <<mailbox, index, attached, recorded, runNo>>

\* lines 176-198: the attachments are written, or an exception is caught and
\* a [WARN] line is printed
DownloadSaveAttachments ==
    /\ broker = "Download" /\ pc = "attach"
    /\ \E ok \in BOOLEAN : attached' = IF ok THEN attached \cup {cur + 1} ELSE attached
    /\ pc' = "mark"
    /\ UNCHANGED <<broker, doc, body, found, cells, lines, cur, failures, started, rows,
                   origin, tried, abandoned>>
    /\ UNCHANGED <<dateVars, textVars, batchVars>>
    /\ UNCHANGED <<mailbox, index, saved, recorded, runNo>>

\* lines 200-212 and mark_downloaded, lines 71-82: INSERT OR REPLACE of the
\* row of the entry id
DownloadMark ==
    /\ broker = "Download" /\ pc = "mark"
    /\ index' = index \cup {cur + 1}
    /\ recorded' = [recorded EXCEPT ![cur + 1] = @ + 1]
    /\ cur' = cur + 1
    /\ pc' = "item"
    /\ UNCHANGED <<broker, doc, body, found, cells, lines, failures, started, rows,
                   origin, tried, abandoned>>
    /\ UNCHANGED <<dateVars, textVars, batchVars>>
    /\ UNCHANGED <<mailbox, saved, attached, runNo>>

\* line 214: the items are exhausted and the counts are returned
DownloadReturn ==
    /\ broker = "Download" /\ pc = "item" /\ cur >= Len(mailbox)
    /\ pc' = "returned"
    /\ UNCHANGED <<broker, doc, body, found, cells, lines, cur, failures, started, rows,
                   origin, tried, abandoned>>
    /\ UNCHANGED <<dateVars, textVars, batchVars, downloadVars>>

\* main, lines 217-253: the script is run again over the same folder, with
\* the index file and the files on disk as the run before left them
DownloadRunAgain ==
    /\ broker = "Download" /\ pc = "returned" /\ runNo < MaxRuns
    /\ runNo' = runNo + 1
    /\ cur' = 0
    /\ pc' = "item"
    /\ UNCHANGED <<broker, doc, body, found, cells, lines, failures, started, rows,
                   origin, tried, abandoned>>
    /\ UNCHANGED <<dateVars, textVars, batchVars>>
    /\ UNCHANGED <<mailbox, index, saved, attached, recorded>>

NextDownload ==
    \/ DownloadSkipOther
    \/ DownloadSkipKnown
    \/ DownloadSaveMsg
    \/ DownloadSaveAttachments
    \/ DownloadMark
    \/ DownloadReturn
    \/ DownloadRunAgain

SpecDownload == InitDownload /\ [][NextDownload]_vars

(***************************************************************************)
(* Properties of the Affinity extraction.                                  *)
(***************************************************************************)
\* a row as the table states it: valid Built and CBM, one or more position
\* cells not of ETA shape, an ETA cell and a non-empty Notes cell
WellFormedRow(t) ==
    /\ BUILT_RE(t.built) /\ CBM_RE(t.cbm)
    /\ Len(t.pos) >= 1
    /\ \A k \in 1..Len(t.pos) : ~ETA_RE(t.pos[k])
    /\ ETA_RE(t.eta)
    /\ t.notes # <<>>

\* the record a table row stands for
ExpectedRow(t) ==
    [Vessel |-> t.vessel, Built |-> t.built, CBM |-> t.cbm, Control |-> t.control,
     Position |-> Join(t.pos, sSlash), ETA |-> t.eta, Notes |-> t.notes]

DocRow(k) == AffinityTemplates[doc.rows[k]]
AllRowsExpected == rows = [k \in 1..Len(doc.rows) |-> ExpectedRow(DocRow(k))]

\* C1 as stated: for text with a line USG, a later line Notes and then k
\* well-formed rows (any number of position cells), extraction yields exactly
\* the k records, in input order, each field equal to its cell.
C1_AnyPositionLength ==
    (broker = "Affinity" /\ pc = "done" /\ doc.kind = "rows"
        /\ \A k \in 1..Len(doc.rows) : WellFormedRow(DocRow(k)))
    => AllRowsExpected

\* C1 amended: for text with a line USG, a later line Notes and then k
\* well-formed rows of one to twelve position cells each, extraction yields
\* exactly k records, in input order, Vessel, Built, CBM, Control, ETA and Notes
\* equal to their cells and Position equal to the position cells joined by
\* " / "; the cells Vessel A, 2016, 83,000, ABC, Singapore, 14-20 Mar, clean
\* yield exactly the one record with those seven values.
C1_RowsWithinCap ==
    /\ (broker = "Affinity" /\ pc = "done" /\ doc.kind = "rows"
          /\ \A k \in 1..Len(doc.rows) :
                WellFormedRow(DocRow(k)) /\ Len(DocRow(k).pos) <= AffinityPositionCap)
       => AllRowsExpected
    /\ (broker = "Affinity" /\ pc = "done" /\ doc.kind = "rows" /\ doc.rows = <<1>>)
       => rows = << [Vessel |-> <<"V","e","s","s","e","l"," ","A">>,
                     Built |-> <<"2","0","1","6">>,
                     CBM |-> <<"8","3",",","0","0","0">>,
                     Control |-> <<"A","B","C">>,
                     Position |-> <<"S","i","n","g","a","p","o","r","e">>,
                     ETA |-> <<"1","4","-","2","0"," ","M","a","r">>,
                     Notes |-> <<"c","l","e","a","n">>] >>

\* two rows, one with two position cells and one with twelve, both extracted
C1_Witness ==
    /\ broker = "Affinity" /\ pc = "done"
    /\ doc.kind = "rows" /\ doc.rows = <<2, 3>> /\ Len(rows) = 2

\* C4 as stated: once more than 80 candidates in a row have been abandoned
\* (failed validation, or no ETA terminator found) with no record emitted
\* between them, the assembly has stopped.
C4_StopsAfterLimit ==
    (broker = "Affinity" /\ abandoned > AffinityFailLimit) => pc = "done"

\* no ETA cell among the first thirteen cells after Control of the candidate
\* at i, or among those the stream still holds
NoEtaWithinCap(cs, i) ==
    \A j \in (i + 4)..Min(Len(cs) - 1, i + 4 + AffinityPositionCap) :
        ~ETA_RE(Strip(cs[j + 1]))

\* C5: a candidate with a valid row start whose position runs past 12 cells
\* without an ETA cell, or to the end of the stream without one, is abandoned:
\* no record is appended, the cursor moves one cell on and the loop goes on;
\* and a record is appended only with at most 12 position cells before its ETA.
C5_CapAbandons ==
    [][ /\ (AffinityInLoop /\ AffinityHasCandidate /\ RowStartValid(cells, cur)
              /\ NoEtaWithinCap(cells, cur))
           => (rows' = rows /\ cur' = cur + 1 /\ pc' = "parse")
        /\ (broker = "Affinity" /\ rows' # rows)
           => \E n \in 0..AffinityPositionCap :
                 /\ cur + 4 + n < Len(cells)
                 /\ ETA_RE(Strip(cells[cur + 4 + n + 1]))
                 /\ \A m \in 0..(n - 1) : ~ETA_RE(Strip(cells[cur + 4 + m + 1]))
                 /\ cur' = cur + 4 + n + 2 ]_vars

\* the row with thirteen position cells has just been abandoned at its start
C5_Witness ==
    /\ broker = "Affinity" /\ doc.kind = "rows" /\ doc.rows = <<4>>
    /\ pc = "parse" /\ cur = 1 /\ abandoned = 1 /\ rows = <<>>

\* the body read line by line: ordered when a line that is Notes alone comes
\* after a line that is USG alone; follow when a non-blank line comes after
\* the first such Notes line
AnchorLines(b) ==
    LET split == SplitLines(normalize_text_affinity(b))
        tl == [k \in 1..Len(split) |-> Lower(Strip(split[k]))]
        usg == {k \in 1..Len(tl) : tl[k] = <<"u","s","g">>}
        notes == {k \in 1..Len(tl) :
                    tl[k] = <<"n","o","t","e","s">> /\ \E u \in usg : u < k}
    IN  [ordered |-> notes # {},
         follow |-> \E n \in notes :
                        /\ \A m \in notes : n <= m
                        /\ \E k \in (n + 1)..Len(tl) : tl[k] # <<>>]

\* C6 as stated: text with a USG line and a later Notes line gives a
\* non-empty window; text missing either anchor gives NotFound.
C6_WindowNeverEmpty ==
    (broker = "Affinity" /\ pc # "start") =>
        IF AnchorLines(body).ordered THEN found /\ cells # <<>> ELSE ~found

\* C6 amended: text with a USG line and a later Notes line gives a window
\* (not NotFound), which is non-empty exactly when a non-blank line follows
\* the first such Notes line; text missing either anchor, or with Notes only
\* before USG, gives NotFound.
C6_WindowWhenAnchored ==
    (broker = "Affinity" /\ pc # "start") =>
        LET a == AnchorLines(body)
        IN  /\ found <=> a.ordered
            /\ (cells # <<>>) <=> a.follow

\* the lines USG, Notes, x: the window is the one cell x
C6_Witness ==
    /\ broker = "Affinity" /\ doc.kind = "lines" /\ doc.lines = <<1, 3, 7>>
    /\ pc # "start" /\ found /\ cells = << <<"x">> >>

(***************************************************************************)
(* Properties of record assembly under corrupted input.                    *)
(***************************************************************************)
\* an Affinity row with exactly one of Built, CBM and ETA not of its shape
AffinityCorrupt(t) ==
    /\ Cardinality({f \in {"built", "cbm", "eta"} :
            \/ f = "built" /\ ~BUILT_RE(t.built)
            \/ f = "cbm" /\ ~CBM_RE(t.cbm)
            \/ f = "eta" /\ ~ETA_RE(t.eta)}) = 1
    /\ Len(t.pos) \in 1..AffinityPositionCap
    /\ \A k \in 1..Len(t.pos) : ~ETA_RE(t.pos[k])
    /\ t.notes # <<>>

AffinitySound(t) == WellFormedRow(t) /\ Len(t.pos) <= AffinityPositionCap

\* the indices in 1..n that satisfy keep, in order
Kept(n, keep(_)) == SelectSeq([k \in 1..n |-> k], keep)

GibsonDocRow(k) == GibsonTemplates[doc.rows[k]]
GibsonSound(t) == GibsonChunkOk(GibsonRowCells(t), 0)
\* a Gibson row with exactly one of BLT and CBM not of its shape
GibsonCorrupt(t) ==
    /\ ~GibsonNextSection(t.vessel)
    /\ GibsonBltOk(t.blt) # GibsonCbmOk(t.cbm)
\* the record a Gibson table row stands for
GibsonExpectedRow(t) == GibsonVerticalRow(GibsonRowCells(t), 0)

\* exactly one row of n is corrupt and the others are sound
OneCorrupt(n, corrupt(_), sound(_)) ==
    \E c \in 1..n : corrupt(c) /\ \A k \in (1..n) \ {c} : sound(k)

\* C2: for a token stream of well-formed rows in which exactly one row has
\* exactly one corrupted required field, the Affinity assembler and the Gibson
\* vertical assembler emit exactly the other rows, unchanged and in input
\* order, and no record for the corrupted row.
C2_RecoversFromCorruptRow ==
    /\ (/\ broker = "Affinity" /\ pc = "done" /\ doc.kind = "rows"
        /\ OneCorrupt(Len(doc.rows), LAMBDA k : AffinityCorrupt(DocRow(k)),
                      LAMBDA k : AffinitySound(DocRow(k))))
       => LET good == Kept(Len(doc.rows), LAMBDA k : AffinitySound(DocRow(k)))
          IN  rows = [j \in 1..Len(good) |-> ExpectedRow(DocRow(good[j]))]
    /\ (/\ broker = "Gibson" /\ pc = "done" /\ doc.kind = "table"
        /\ ~doc.half /\ doc.n = 1 /\ doc.lines = <<>>
        /\ OneCorrupt(Len(doc.rows), LAMBDA k : GibsonCorrupt(GibsonDocRow(k)),
                      LAMBDA k : GibsonSound(GibsonDocRow(k))))
       => LET good == Kept(Len(doc.rows), LAMBDA k : GibsonSound(GibsonDocRow(k)))
          IN  rows = [j \in 1..Len(good) |-> GibsonExpectedRow(GibsonDocRow(good[j]))]

\* C3: in fixed-stride assembly (Gibson nine tokens, Poten six) a candidate
\* that fails its shape check is discarded and the window moves on by one
\* token, so the well-formed rows after a single spurious token are all
\* extracted.
C3_ResyncsByOneToken ==
    /\ (/\ broker = "Gibson" /\ pc = "done" /\ doc.kind = "table"
        /\ doc.half /\ doc.n = 1 /\ doc.lines = <<>>
        /\ \A k \in 1..Len(doc.rows) : GibsonSound(GibsonDocRow(k)))
       => rows = [k \in 1..Len(doc.rows) |-> GibsonExpectedRow(GibsonDocRow(k))]
    /\ (/\ broker = "Poten" /\ pc = "done" /\ doc.kind = "table"
        /\ doc.half /\ doc.lines = <<>>)
       => rows = [k \in 1..Len(doc.rows) |-> PotenRow(PotenTemplates[doc.rows[k]])]

(***************************************************************************)
(* Properties of section location and of the strategy chain.               *)
(***************************************************************************)
\* C7: for an empty or whitespace-only body every broker's extraction ends at
\* once, reports not-found and yields no record.
C7_BlankBodyNotFound ==
    (pc # "start" /\ AllIn(body, Space))
    => /\ pc = "done"
       /\ ~found
       /\ rows = <<>> /\ cells = <<>> /\ lines = <<>>
       /\ tried = {}

\* a body of blanks and newlines has been searched by the Fearnleys extractor
C7_Witness ==
    /\ broker = "Fearnleys" /\ pc = "done"
    /\ body = <<"\n", "\n", "\n", "\n">>
    /\ ~found

\* C8: in the strategy chain (Gibson: vertical parse, then one-line parse;
\* Poten: one-line parse, then vertical parse) the strategies run in priority
\* order, the records all come from one strategy, the second strategy runs
\* only when the first produced no record, and a located section gives no
\* record only when both strategies ran and produced none.
C8_FirstProducingStrategy ==
    broker \in {"Gibson", "Poten"} =>
        LET first == IF broker = "Gibson" THEN "vertical" ELSE "horizontal"
            second == IF broker = "Gibson" THEN "fallback" ELSE "vertical"
        IN  /\ Len(origin) = Len(rows)
            /\ \A j, k \in 1..Len(origin) : origin[j] = origin[k]
            /\ tried \subseteq {first, second}
            /\ second \in tried
               => (first \in tried /\ \A k \in 1..Len(origin) : origin[k] = second)
            /\ (pc = "done" /\ found /\ rows = <<>>) => tried = {first, second}
            /\ (pc = "done" /\ rows # <<>> /\ origin[1] = first) => tried = {first}

\* a Gibson table with a row cell by cell and then the same row on one line:
\* the vertical parse gives the record and the one-line parse is not run
C8_Witness ==
    /\ broker = "Gibson" /\ pc = "done"
    /\ doc.kind = "table" /\ doc.rows = <<1>> /\ doc.lines = <<1>>
    /\ origin = <<"vertical">> /\ tried = {"vertical"}

(***************************************************************************)
(* Properties of date resolution.                                          *)
(***************************************************************************)
\* the number of the month a resolver recognises under this name, else 0
RecognisedMonth(br, name) ==
    IF br = "Fearnleys" THEN MonthGet(MonthAbbr, Lower(name))
    ELSE IF MonthGet(MonthFull, Lower(name)) # 0 THEN MonthGet(MonthFull, Lower(name))
    ELSE MonthGet(MonthAbbr, Lower(name))

\* a datetime of one month counted in half-days
HalfDays(t) == 2 * t.day + t.hour \div 12
Before(s, t) ==
    <<s.year, s.month>> = <<t.year, t.month>> /\ HalfDays(s) < HalfDays(t)

\* C9: for an expression "D1-D2 Mon" with a recognised month, D1 <= D2, both
\* days valid in the month, and a reference timestamp in year Y that is not
\* the December-to-January case, parse_eta_dates and parse_eta_range return
\* start = (Y, Mon, D1), end = (Y, Mon, D2) and midpoint = start +
\* (end - start)/2, strictly between the two when D1 < D2 and equal to both
\* when D1 = D2.
C9_RangeResolves ==
    (/\ broker \in {"Fearnleys", "Poten"} /\ pc = "done"
     /\ doc.kind = "range" /\ doc.fmt \in {1, 2} /\ ref.has)
    => LET m == RecognisedMonth(broker, MonthNames[doc.mon])
           d1 == ToInt(DayStrs[doc.a])
           d2 == ToInt(DayStrs[doc.b])
       IN  (/\ m # 0 /\ d1 <= d2
            /\ ValidDate(ref.year, m, d1) /\ ValidDate(ref.year, m, d2)
            /\ ~(ref.month = 12 /\ m = 1))
           => /\ res.ok
              /\ res.start = [year |-> ref.year, month |-> m, day |-> d1, hour |-> 0]
              /\ res.end = [year |-> ref.year, month |-> m, day |-> d2, hour |-> 0]
              /\ res.mid.year = ref.year /\ res.mid.month = m
              /\ res.mid.hour \in {0, 12}
              /\ 2 * HalfDays(res.mid) = HalfDays(res.start) + HalfDays(res.end)
              /\ d1 < d2 => Before(res.start, res.mid) /\ Before(res.mid, res.end)
              /\ d1 = d2 => res.mid = res.start /\ res.mid = res.end

\* "1-06 March" against a reference in February 2025: the midpoint is noon of
\* 3 March 2025
C9_Witness ==
    /\ broker = "Poten" /\ pc = "done"
    /\ expr = <<"1","-","0","6"," ","M","a","r","c","h">>
    /\ ref = [has |-> TRUE, year |-> 2025, month |-> 2]
    /\ res.ok
    /\ res.mid = [year |-> 2025, month |-> 3, day |-> 3, hour |-> 12]

\* C10: with a reference timestamp, infer_year (Fearnleys and Poten) returns
\* the reference year plus one when the reference month is 12 and the parsed
\* month is 1, and the reference year for every other pair of months.
C10_YearRollover ==
    (pc = "done" /\ doc.kind = "year" /\ ref.has)
    => /\ (ref.month = 12 /\ parsedMonth = 1) => inferredYear = ref.year + 1
       /\ ~(ref.month = 12 /\ parsedMonth = 1) => inferredYear = ref.year

\* January against a reference in December 2025
C10_Witness ==
    /\ broker = "Fearnleys" /\ pc = "done" /\ doc.kind = "year"
    /\ ref = [has |-> TRUE, year |-> 2025, month |-> 12]
    /\ parsedMonth = 1
    /\ inferredYear = 2026

\* the number of the month the Affinity and Gibson resolvers recognise under
\* this name, else 0: Affinity looks the first three letters up as written
\* (lines 75 and 94), Gibson a word of three letters after title() (lines
\* 102 and 114-116)
RecognisedMonthUsg(br, name) ==
    IF br = "Affinity" THEN MonthGet(MonthAbbrCased, SubSeq(name, 1, 3))
    ELSE IF Len(name) # 3 THEN 0
    ELSE MonthGet(MonthAbbrCased, Title(name))

\* C11: in the Affinity and Gibson resolvers (parse_eta_range,
\* parse_eta_usg_range), for an expression "D1-D2 Jan" with valid days and a
\* reference date in December of year Y, the resolved start and end fall in
\* year Y + 1: reference 2025-12-20 with "05-06 Jan" gives start 2026-01-05.
C11_RolloverAffinityGibson ==
    (/\ broker \in {"Affinity", "Gibson"} /\ pc = "done"
     /\ doc.kind = "range" /\ doc.fmt = 1
     /\ ref.has /\ ref.month = 12
     /\ RecognisedMonthUsg(broker, MonthNames[doc.mon]) = 1
     /\ ToInt(DayStrs[doc.a]) \in 1..31 /\ ToInt(DayStrs[doc.b]) \in 1..31)
    => /\ res.ok
       /\ res.start.year = ref.year + 1 /\ res.start.month = 1
       /\ res.end.year = ref.year + 1 /\ res.end.month = 1
       /\ res.start.day = ToInt(DayStrs[doc.a])

\* the bucket word of a relative expression, in lower case
BucketOf(d) == Lower(BucketWords[d.a])

\* the day-of-month range the claims give for a bucket word in month m of
\* year y
ClaimedBucketDays(word, y, m) ==
    IF word = <<"e","a","r","l","y">> THEN <<1, 10>>
    ELSE IF word = <<"m","i","d">> THEN <<11, 20>>
    ELSE <<21, DaysInMonth(y, m)>>

\* C12: Fearnleys parse_eta_dates on "Late Feb": the end day is the last day
\* of February of the inferred year, 28 in a non-leap year and 29 in a leap
\* year ("Late Feb" with reference year 2028 gives end day 29).
C12_LateFebLastDay ==
    (/\ broker = "Fearnleys" /\ pc = "done" /\ doc.kind = "bucket" /\ ref.has
     /\ BucketOf(doc) = <<"l","a","t","e">>
     /\ RecognisedMonth(broker, MonthNames[doc.mon]) = 2)
    => /\ res.ok
       /\ res.end.year = ref.year /\ res.end.month = 2
       /\ res.end.day = IF IsLeap(ref.year) THEN 29 ELSE 28

\* C13: Fearnleys parse_eta_dates on the relative buckets, for every month and
\* year: "Early Mon" resolves to days 1..10, "Mid Mon" to days 11..20, and
\* "Late Mon" and "End Mon" both to day 21 .. the last day of the month.
C13_BucketRanges ==
    (/\ broker = "Fearnleys" /\ pc = "done" /\ doc.kind = "bucket" /\ ref.has
     /\ BucketOf(doc) \in {RELATIVE_BUCKETS[i].name : i \in 1..Len(RELATIVE_BUCKETS)}
     /\ RecognisedMonth(broker, MonthNames[doc.mon]) # 0)
    => LET m == RecognisedMonth(broker, MonthNames[doc.mon])
           y == infer_year_fearnleys(ref, m, nowYear)
       IN  /\ res.ok
           /\ <<res.start.year, res.start.month>> = <<y, m>>
           /\ <<res.end.year, res.end.month>> = <<y, m>>
           /\ <<res.start.day, res.end.day>> = ClaimedBucketDays(BucketOf(doc), y, m)

\* C14: date resolution is total: for every expression (no grammar matched, a
\* three-letter word that is no month abbreviation or is one in another
\* letter case, days out of range) and every reference, the Affinity,
\* Fearnleys and Gibson resolvers return, and return all-none when they do
\* not resolve; none raises.
C14_ResolutionTotal ==
    (broker \in {"Affinity", "Fearnleys", "Gibson"} /\ doc.kind # "year")
    => /\ pc # "raised"
       /\ (pc = "done" /\ ~res.ok)
              => res.start = NoDT /\ res.end = NoDT /\ res.mid = NoDT

\* the month a resolver reads from a "D1-D2 Mon" expression, else 0
MonthRead(br, name) ==
    IF br \in {"Affinity", "Gibson"} THEN RecognisedMonthUsg(br, name)
    ELSE RecognisedMonth(br, name)

\* a day of month m in every year, and a day of month m in no year
SurelyValid(m, d) == ValidDate(2025, m, d)
SurelyInvalid(m, d) == ~ValidDate(2028, m, d)

\* C15: a resolved date range is never partial: in every result that reaches
\* the sink, start, end and midpoint are all none or all present; when
\* exactly one of the two days of "D1-D2 Mon" is invalid for the month
\* ("30-31 Apr"), all three are none.
C15_NeverPartial ==
    (pc = "done" /\ doc.kind # "year")
    => /\ \/ res.ok /\ res.start # NoDT /\ res.end # NoDT /\ res.mid # NoDT
          \/ ~res.ok /\ res.start = NoDT /\ res.end = NoDT /\ res.mid = NoDT
       /\ (doc.kind = "range" /\ doc.fmt = 1 /\ MonthRead(broker, MonthNames[doc.mon]) # 0)
          => LET m == MonthRead(broker, MonthNames[doc.mon])
                 d1 == ToInt(DayStrs[doc.a])
                 d2 == ToInt(DayStrs[doc.b])
             IN  (\/ SurelyValid(m, d1) /\ SurelyInvalid(m, d2)
                  \/ SurelyInvalid(m, d1) /\ SurelyValid(m, d2))
                 => res = NoDates

\* "30-31 apr" in the Fearnleys resolver: 30 April exists, 31 April does not,
\* and nothing is resolved
C15_Witness ==
    /\ broker = "Fearnleys" /\ pc = "done"
    /\ expr = <<"3","0","-","3","1"," ","a","p","r">>
    /\ ref = [has |-> TRUE, year |-> 2025, month |-> 2]
    /\ res = NoDates

(***************************************************************************)
(* Properties of normalization and tokenization.                           *)
(***************************************************************************)
\* C16: for every input string, the output of normalize_text of each of the
\* four extractors holds no carriage return, no non-breaking space and no
\* en-dash or em-dash.
C16_NormalizedCharacters ==
    (pc = "done" /\ doc.kind = "normalize")
    => \A k \in 1..Len(normalized) : normalized[k] \notin {"\r", "NBSP", "ENDASH", "EMDASH"}

\* C17: two inputs that hold the same values and differ only in the whitespace
\* around them tokenize to the same tokens, both in the blank-line cell
\* tokenization of extract_usg_cells and in smart_split (a different number
\* of separator characters, a line mixing tabs and runs of spaces).
C17_WhitespaceInsensitive ==
    (pc = "done" /\ doc.kind \in {"cells", "split"}) => cells = twinCells

(***************************************************************************)
(* Properties of main().                                                   *)
(***************************************************************************)
\* does processing message number i fail at some stage: it cannot be read, or
\* the resolver of the extractor raises on one of its ETA expressions
MessageFails(i) ==
    \/ ~batch[i].readable
    \/ /\ broker = "Affinity"
       /\ \E k \in 1..Len(batch[i].etas) :
              parse_eta_range_affinity(BatchEtas[batch[i].etas[k]],
                                       to_local_time_str(ref), nowYear).raised

\* C18: a failure while processing one message, at any stage including the
\* resolution of its date expressions, is reported for that message only and
\* never aborts the run: main ends normally, only failing messages are
\* reported, and every row of every other message is written to the sink.
C18_FailureIsolated ==
    /\ pc # "raised"
    /\ \A i \in logged : MessageFails(i)
    /\ pc = "done"
       => \A i \in 1..Len(batch) :
              ~MessageFails(i)
              => \A k \in 1..Len(batch[i].etas) :
                     \E j \in 1..Len(sink) : sink[j].msg = i /\ sink[j].row = k

(***************************************************************************)
(* Properties of the Affinity assembly: Notes, and termination.            *)
(***************************************************************************)
\* a well-formed row whose Notes cell may be missing
NotesOptionalRow(t) ==
    /\ BUILT_RE(t.built) /\ CBM_RE(t.cbm)
    /\ Len(t.pos) \in 1..AffinityPositionCap
    /\ \A k \in 1..Len(t.pos) : ~ETA_RE(t.pos[k])
    /\ ETA_RE(t.eta)

\* C19: Notes is the cell after the ETA cell and is empty when that cell is
\* missing: a row that ends at its ETA cell gives a record with Notes = "",
\* and the row after it is still extracted as its own record with its own
\* Vessel.
C19_MissingNotes ==
    (/\ broker = "Affinity" /\ pc = "done" /\ doc.kind = "rows"
     /\ \A k \in 1..Len(doc.rows) : NotesOptionalRow(DocRow(k))
     /\ \E k \in 1..Len(doc.rows) : DocRow(k).notes = <<>>)
    => AllRowsExpected

\* does the stream hold a candidate with a valid row start and an ETA cell
\* within reach
Parseable(cs) ==
    \E i \in 0..(Len(cs) - 4) :
        RowStartValid(cs, i) /\ ScanPosition(cs, i + 4, <<>>).hit

\* C20: parse_usg_rows_from_cells terminates on every token stream: each
\* iteration of the outer loop moves the cursor on, by one when the candidate
\* fails or is abandoned and past the ETA cell of the row when a record is
\* appended; with fewer than four cells left the loop ends; the assembly
\* always comes to its end; and a stream with no parseable row gives no
\* record, without raising.
C20_AssemblyTerminates ==
    /\ [][AffinityInLoop =>
            IF AffinityHasCandidate
            THEN /\ cur' > cur
                 /\ rows' = rows => cur' = cur + 1
                 /\ rows' # rows => /\ Len(rows') = Len(rows) + 1
                                    /\ cur' >= cur + 6
                                    /\ cur' - 1 <= Len(cells)
                                    /\ ETA_RE(Strip(cells[cur' - 1]))
            ELSE pc' = "done" /\ rows' = rows /\ cur' = cur]_vars
    /\ [](broker = "Affinity" => /\ pc # "raised"
                                 /\ cur <= Len(cells) + 1
                                 /\ (pc = "done" /\ ~Parseable(cells)) => rows = <<>>)
    /\ (broker = "Affinity") ~> (pc = "done")

\* the stream V, 2016, 2016, V, V: the candidate at 0 has a valid start and
\* no ETA cell, the candidate at 1 fails validation, three cells are left and
\* the loop has ended with no record
C20_Witness ==
    /\ broker = "Affinity" /\ doc.kind = "stream"
    /\ cells = << <<"V">>, <<"2","0","1","6">>, <<"2","0","1","6">>, <<"V">>, <<"V">> >>
    /\ pc = "done" /\ rows = <<>> /\ cur = 2 /\ abandoned = 2

(***************************************************************************)
(* The shape of the records of parse_usg_rows_from_cells                   *)
(***************************************************************************)
\* C21: every record emitted by the Affinity assembly has a Built that is a
\* 4-digit year or '*', a CBM that is a number (grouped by thousands or not)
\* or '*', and an ETA of the terminator shape; the cells joined into its
\* Position are the cells between Control and the ETA cell, none of them of
\* the terminator shape, and the ETA is the cell that ended them.
C21_RecordShape ==
    /\ [](broker = "Affinity" =>
            \A k \in 1..Len(rows) :
                BUILT_RE(rows[k].Built) /\ CBM_RE(rows[k].CBM) /\ ETA_RE(rows[k].ETA))
    /\ [][(broker = "Affinity" /\ rows' # rows) =>
            LET last == rows'[Len(rows')]
                mid == [k \in 1..(cur' - cur - 6) |-> Strip(cells[cur + 4 + k])]
            IN  /\ Len(rows') = Len(rows) + 1
                /\ \A k \in 1..Len(mid) : ~ETA_RE(mid[k])
                /\ last.Position = Join(NonEmptyParts(mid), sSlash)
                /\ last.ETA = Strip(cells[cur' - 1])
                /\ last.Built = Strip(cells[cur + 2])
                /\ last.CBM = Strip(cells[cur + 3])]_vars

\* the row of vessel B, with two position cells, has been emitted
C21_Witness ==
    /\ broker = "Affinity" /\ doc.kind = "rows" /\ doc.rows = <<2>>
    /\ pc = "done" /\ Len(rows) = 1
    /\ rows[1].Built = <<"*">> /\ rows[1].ETA = <<"5"," ","A","p","r">>
    /\ rows[1].Position = <<"H","o","u","s","t","o","n"," ","/"," ","P","a","n","a","m","a">>

(***************************************************************************)
(* The order of a resolved range                                           *)
(***************************************************************************)
\* s is not later than t
NotLater(s, t) ==
    \/ s.year < t.year
    \/ s.year = t.year /\ s.month < t.month
    \/ <<s.year, s.month>> = <<t.year, t.month>> /\ HalfDays(s) <= HalfDays(t)

\* C22: every date range a resolver returns that is not none is in
\* chronological order, start <= midpoint <= end, whatever the accepted
\* expression, the day ranges written with D1 > D2 included.
C22_ChronologicalOrder ==
    (pc = "done" /\ doc.kind # "year" /\ res.ok)
    => NotLater(res.start, res.mid) /\ NotLater(res.mid, res.end)

(***************************************************************************)
(* The ETA cells of the Affinity assembly in the Affinity resolver         *)
(***************************************************************************)
\* the month a three-letter name means when its case is not looked at
MonthAnyCase(name) == IF Len(name) # 3 THEN 0 ELSE MonthGet(MonthAbbrCased, Title(name))

\* C23: in the Affinity extractor every ETA value that ETA_RE accepts and
\* that names a real day and month, a single day "D Mon" or a range
\* "D-D Mon" with the month abbreviation in any letter case, is resolved by
\* parse_eta_range to a start and an end that are not none, without raising.
C23_TerminatorResolves ==
    (/\ broker = "Affinity" /\ pc \in {"done", "raised"}
     /\ doc.kind \in {"range", "single"}
     /\ ETA_RE(expr)
     /\ MonthAnyCase(MonthNames[doc.mon]) # 0
     /\ SurelyValid(MonthAnyCase(MonthNames[doc.mon]), ToInt(DayStrs[doc.a]))
     /\ doc.kind = "range"
            => SurelyValid(MonthAnyCase(MonthNames[doc.mon]), ToInt(DayStrs[doc.b])))
    => pc = "done" /\ res.ok /\ res.start # NoDT /\ res.end # NoDT

(***************************************************************************)
(* The end of the Fearnleys line collection                                *)
(***************************************************************************)
\* C24: in extract_usg_positions_lines, once the first position line (a line
\* with both ':' and '/') has been seen, a blank line ends the collection
\* only as the third of three blank lines in a row, with no non-blank line
\* between them; blank lines with continuation lines between them never end
\* it; and every collected entry holds both ':' and '/'.
C24_ThreeBlanksInARow ==
    broker = "Fearnleys"
    => /\ \A k \in 1..Len(cells) : FearnleysDataLine(cells[k])
       /\ (pc = "parse" /\ cur < Len(lines) /\ lines[cur + 1] = <<>>)
              => /\ started
                 /\ cur >= 2
                 /\ lines[cur] = <<>>
                 /\ lines[cur - 1] = <<>>

(***************************************************************************)
(* The index of downloaded messages                                        *)
(***************************************************************************)
\* C25: in download_folder_mails a message is recorded in the index only
\* after its .msg file was saved successfully, so that a message whose save
\* failed is not skipped as already downloaded on the next run; and a
\* message already in the index is never saved or recorded again.
C25_RecordedAfterSaved ==
    /\ [](broker = "Download" => \A id \in index : id \in saved)
    /\ [][broker = "Download" =>
            \A id \in index :
                /\ id \in index'
                /\ recorded'[id] = recorded[id]
                /\ (id \in saved') = (id \in saved)
                /\ (id \in attached') = (id \in attached)]_vars

====
